---- MODULE Spec2Model ----
(***************************************************************************)
(* WiFiManager for ESP-IDF: the connection / portal state machine.         *)
(*                                                                         *)
(* Execution contexts:                                                     *)
(*   - the application task, which calls autoConnect, startConfigPortal    *)
(*     and process (pc is its position inside a blocking call);            *)
(*   - the event-loop task, which runs wifiEventHandler / ipEventHandler   *)
(*     (they take no lock, so they interleave with the application task);  *)
(*   - the HTTP server task, which runs handleWifiSave / handleExit        *)
(*     (httpPc is its position inside handleWifiSave).                     *)
(*                                                                         *)
(* Time is counted in ticks of one second.  The code compares              *)
(* esp_timer_get_time() - start > timeout; the model keeps the two         *)
(* differences (connectElapsed, portalElapsed) in ticks and saturates them *)
(* above the largest timeout, where the comparison no longer changes.      *)
(***************************************************************************)
EXTENDS Integers, Sequences, FiniteSets, TLC

\* ---------------------------------------------------------------- bounds
MaxCalls == 1          \* autoConnect / startConfigPortal calls in one run
MaxTimeoutSecs == 1    \* largest timeout (seconds) a run is configured with
MaxStops == 2          \* stopServers calls in one run

\* CONFIG_WM_MAX_CUSTOM_PARAMS (wm_config.h line 100), the capacity of the
\* parameter registry; its value comes from the build configuration.
WM_MAX_CUSTOM_PARAMS == 3

MaxAps == 2            \* access points in one scan result
MaxDnsItems == 2       \* questions and records in one DNS query
MaxFields == 2            \* fields in a /wifisave form

\* ------------------------------------------------------------- constants
WM_STATE_INIT           == "INIT"
WM_STATE_TRY_STA        == "TRY_STA"
WM_STATE_RUN_STA        == "RUN_STA"
WM_STATE_START_PORTAL   == "START_PORTAL"
WM_STATE_RUN_PORTAL     == "RUN_PORTAL"
WM_STATE_PORTAL_ABORT   == "PORTAL_ABORT"
WM_STATE_PORTAL_TIMEOUT == "PORTAL_TIMEOUT"

wm_state_t == { WM_STATE_INIT, WM_STATE_TRY_STA, WM_STATE_RUN_STA,
                WM_STATE_START_PORTAL, WM_STATE_RUN_PORTAL,
                WM_STATE_PORTAL_ABORT, WM_STATE_PORTAL_TIMEOUT }

wl_status_t == { "WL_IDLE_STATUS", "WL_NO_SSID_AVAIL", "WL_SCAN_COMPLETED",
                 "WL_CONNECTED", "WL_CONNECT_FAILED", "WL_CONNECTION_LOST",
                 "WL_WRONG_PASSWORD", "WL_DISCONNECTED" }

\* The case labels of the handler's switch over the disconnect reason, and
\* the reasons of the state machine's disconnect events: the second group
\* of labels and one reason the switch does not list.
NoApReasons == { "WIFI_REASON_NO_AP_FOUND",
                 "WIFI_REASON_NO_AP_FOUND_W_COMPATIBLE_SECURITY",
                 "WIFI_REASON_NO_AP_FOUND_IN_AUTHMODE_THRESHOLD",
                 "WIFI_REASON_NO_AP_FOUND_IN_RSSI_THRESHOLD" }
AuthReasons == { "WIFI_REASON_AUTH_EXPIRE", "WIFI_REASON_AUTH_LEAVE",
                 "WIFI_REASON_4WAY_HANDSHAKE_TIMEOUT",
                 "WIFI_REASON_GROUP_KEY_UPDATE_TIMEOUT",
                 "WIFI_REASON_802_1X_AUTH_FAILED" }
Reasons     == AuthReasons \cup { "WIFI_REASON_BEACON_TIMEOUT" }

\* SSIDs a /wifisave form can carry ("" is a missing or empty s= field).
FormSsids == { "", "MyNet" }

ElapsedCap == MaxTimeoutSecs + 1

VARIABLES
    state,                \* _state
    lastConxResult,       \* _lastConxResult
    connectElapsed,       \* esp_timer_get_time() - _connectStart (ticks, saturated)
    portalElapsed,        \* esp_timer_get_time() - _configPortalStart (ticks, saturated)
    connectTimeout,       \* _connectTimeout (ticks)
    configPortalTimeout,  \* _configPortalTimeout (ticks), 0 = none
    configPortalBlocking, \* _configPortalBlocking
    saveConfigCallback,   \* _saveConfigCallback is set
    httpServer,           \* _httpServer != nullptr
    dnsRunning,           \* _dnsRunning
    dnsTaskHandle,        \* _dnsTaskHandle != nullptr
    handlers,             \* event handler instances registered for the Manager
    wifiMode,             \* the driver's mode: NULL, STA, AP, APSTA
    sta,                  \* the station link: idle, connecting, associated, gotip, leaving
    storedSsid,           \* the station SSID in the driver's flash configuration
    pc,                   \* the application task's position
    httpPc,               \* the HTTP task's position
    callKind,             \* the public call being (or last) executed
    calls,                \* number of autoConnect / startConfigPortal calls so far
    ret,                  \* the last call's return value: none, true, false
    hadCreds,             \* history: getWiFiIsSaved() at the entry of the last autoConnect
    ipInWindow,           \* history: got-IP was delivered during this autoConnect's attempt, in time
    portalStarted,        \* history: this call brought the portal up
    wifiSaveSeen,         \* history: a /wifisave issued a connect request
    saveCbCalls,          \* history: save-config callback invocations since the last connect request
    bootCreds,            \* history: credentials were stored when the Manager was constructed
    dnsTaskCreateOk,      \* environment: xTaskCreate of the DNS responder task succeeds
    stopCalls,            \* history: stopServers calls made so far
    resetRet,             \* the last resetSettings() return value: none, true, false
    pc2,                  \* a second task's position in a public call: idle, waiting (for the mutex)
    configModeCalls,      \* invocations of _configModeCallback (set at line 401, called nowhere)
    params,               \* _params: the ids of the registered parameters, in order
    rawScanResults,       \* _rawScanResults: the driver's records, then the filtered list
    apRecords,            \* the records esp_wifi_scan_get_ap_records delivered last
    minimumQuality,       \* _minimumQuality (percent)
    removeDuplicateAPs,   \* _removeDuplicateAPs
    dnsQuery,             \* the datagram dnsServerTask received last
    dnsReply,             \* the datagram it sent back for it
    portalSeconds,        \* the argument of the last setConfigPortalTimeout
    portalTimeoutField,   \* _configPortalTimeout as stored, in units of 2^6 microseconds
    connectSeconds,       \* the argument of the last setConnectTimeout
    connectTimeoutField,  \* _connectTimeout as stored, in units of 2^6 microseconds
    dnsSocket,            \* _dnsSocket: -1 or the descriptor the task opened
    dnsSocketOpen,        \* the descriptor opened by the task is still open
    dnsTaskPc,            \* where the DNS task is: none, socket, loop, recvfrom
    dnsStopPc,            \* stopDNSServer: idle, test / close / reset of the socket, or wait
    dnsStopEnd,           \* how the last stopDNSServer ended: none, self, forced
    dnsSocketAtStop,      \* the task had opened its socket when the last stop began
    scanInProgress,       \* _scanInProgress
    current_mode,         \* performWiFiScan's local current_mode at the last accepted request
    driverScanning,       \* an asynchronous scan is running in the driver
    apCallback,           \* _apCallback: none, plain (calls nothing of the Manager) or the locking method it calls
    dnsCloses,            \* close() calls made on the descriptor of the current DNS session
    paramValues,          \* the value of the parameter in each slot of the registry
    staPassword,          \* the password of the driver's station configuration
    httpReply             \* the answer to the last POST /wifisave: none, error, 500, connecting

vars == << state, lastConxResult, connectElapsed, portalElapsed,
           connectTimeout, configPortalTimeout, configPortalBlocking,
           saveConfigCallback, httpServer, dnsRunning, dnsTaskHandle, handlers, wifiMode, sta,
           storedSsid, pc, httpPc, callKind, calls, ret, hadCreds,
           ipInWindow, portalStarted, wifiSaveSeen, saveCbCalls, bootCreds,
           dnsTaskCreateOk,
           stopCalls,
           resetRet,
           pc2,
           configModeCalls,
           params,
           rawScanResults,
           apRecords,
           minimumQuality,
           removeDuplicateAPs,
           dnsQuery,
           dnsReply,
           portalSeconds,
           portalTimeoutField,
           connectSeconds,
           connectTimeoutField,
           dnsSocket,
           dnsSocketOpen,
           dnsTaskPc,
           dnsStopPc,
           dnsStopEnd,
           dnsSocketAtStop,
           scanInProgress,
           current_mode,
           driverScanning,
           apCallback,
           dnsCloses,
           paramValues,
           staPassword,
           httpReply >>

configVars  == << connectTimeout, configPortalTimeout, configPortalBlocking,
                  saveConfigCallback, bootCreds, dnsTaskCreateOk,
                  stopCalls,
                  resetRet,
                  pc2,
                  configModeCalls,
                  params,
                  rawScanResults,
                  apRecords,
                  minimumQuality,
                  removeDuplicateAPs,
                  dnsQuery,
                  dnsReply,
                  portalSeconds,
                  portalTimeoutField,
                  connectSeconds,
                  connectTimeoutField,
                  dnsSocket,
                  dnsSocketOpen,
                  dnsTaskPc,
                  dnsStopPc,
                  dnsStopEnd,
                  dnsSocketAtStop,
                  scanInProgress,
                  current_mode,
                  driverScanning,
                  apCallback,
                  dnsCloses,
                  paramValues,
                  staPassword,
                  httpReply >>

\* The variables of the connection state machine, its servers and the
\* application tasks; the registry, scan and DNS packet operations below
\* leave all of them unchanged.
machineVars == << state, lastConxResult, connectElapsed, portalElapsed,
                  connectTimeout, configPortalTimeout, configPortalBlocking,
                  saveConfigCallback, httpServer, dnsRunning, dnsTaskHandle,
                  handlers, wifiMode, sta, storedSsid, pc, httpPc, callKind,
                  calls, ret, hadCreds, ipInWindow, portalStarted,
                  wifiSaveSeen, saveCbCalls, bootCreds, dnsTaskCreateOk,
                  stopCalls, resetRet, pc2, configModeCalls >>

Min(a, b) == IF a < b THEN a ELSE b

BoolStr(b) == IF b THEN "true" ELSE "false"

\* -------------------------------------------------- timeout arithmetic
\* The documented defaults (seconds) of the portal and connect timeouts.
WM_DEFAULT_PORTAL_TIMEOUT == 180

WM_DEFAULT_CONNECT_TIMEOUT == 30

\* _connectTimeout and _configPortalTimeout are uint32_t fields holding
\* microseconds (WiFiManager.h lines 137-138).  Every value the setters
\* store is a multiple of 2^6 microseconds, because 1000000 = 2^6 * 15625;
\* the fields are kept in that unit, in which 2^32 microseconds are 2^26.
UnitMicros == 2^6

UnitsPerSecond == 1000000 \div UnitMicros

Uint32Units == 2^(32 - 6)

\* (a * b) % m by doubling, every intermediate value below 3 * m.
RECURSIVE mulMod(_, _, _)
mulMod(a, b, m) ==
    IF b = 0 THEN 0
    ELSE (2 * mulMod(a, b \div 2, m) + (b % 2) * (a % m)) % m

\* Lines 372 and 377: seconds * 1000000ULL is computed in 64 bits and
\* stored in the 32-bit field, i.e. taken modulo 2^32.
secondsToField(seconds) == mulMod(UnitsPerSecond, seconds, Uint32Units)

\* ---------------------------------------------------------------- Init
\* The constructor followed by the application's configuration calls
\* (setConnectTimeout, setConfigPortalTimeout, setConfigPortalBlocking,
\* setSaveConfigCallback), with the configuration and the flash contents
\* drawn from small sets.  The DNS responder task can be created in these
\* runs (startDNSServer's xTaskCreate succeeds); its failure changes no
\* control flow in startConfigPortalInternal, which only logs it.
Init ==
    /\ state = WM_STATE_INIT
    /\ lastConxResult = "WL_IDLE_STATUS"
    /\ connectElapsed = 0
    /\ portalElapsed = 0
    /\ connectTimeout = MaxTimeoutSecs
    /\ configPortalTimeout \in { 0, MaxTimeoutSecs }
    /\ configPortalBlocking \in BOOLEAN
    /\ saveConfigCallback = TRUE
    /\ httpServer = FALSE
    /\ dnsRunning = FALSE
    /\ dnsTaskHandle = FALSE
    /\ handlers = 0
    /\ wifiMode = "NULL"
    /\ sta = "idle"
    /\ storedSsid \in { "", "HomeNet" }
    /\ pc = "idle"
    /\ httpPc = "idle"
    /\ callKind = "none"
    /\ calls = 0
    /\ ret = "none"
    /\ hadCreds = FALSE
    /\ ipInWindow = FALSE
    /\ portalStarted = FALSE
    /\ wifiSaveSeen = FALSE
    /\ saveCbCalls = 0
    /\ bootCreds = (storedSsid # "")
    /\ dnsTaskCreateOk = TRUE
    /\ stopCalls = 0
    /\ resetRet = "none"
    /\ pc2 = "idle"
    /\ configModeCalls = 0
    /\ params = << >>
    /\ rawScanResults = << >>
    /\ apRecords = << >>
    /\ minimumQuality = 0
    /\ removeDuplicateAPs = TRUE
    /\ dnsQuery = [ len |-> "none", qdcount |-> 0, arcount |-> 0, body |-> << >> ]
    /\ dnsReply = [ sent |-> FALSE, qr |-> FALSE, aa |-> FALSE, qdcount |-> 0, ancount |-> 0, nscount |-> 0, arcount |-> 0, body |-> << >> ]
    /\ portalSeconds = WM_DEFAULT_PORTAL_TIMEOUT
    /\ portalTimeoutField = secondsToField(WM_DEFAULT_PORTAL_TIMEOUT)
    /\ connectSeconds = WM_DEFAULT_CONNECT_TIMEOUT
    /\ connectTimeoutField = secondsToField(WM_DEFAULT_CONNECT_TIMEOUT)
    /\ dnsSocket = 0 - 1
    /\ dnsSocketOpen = FALSE
    /\ dnsTaskPc = "none"
    /\ dnsStopPc = "idle"
    /\ dnsStopEnd = "none"
    /\ dnsSocketAtStop = FALSE
    /\ scanInProgress = FALSE
    /\ current_mode = "none"
    /\ driverScanning = FALSE
    /\ apCallback = "none"
    /\ dnsCloses = 0
    /\ paramValues = [ i \in 1..WM_MAX_CUSTOM_PARAMS |-> "" ]
    /\ staPassword = ""
    /\ httpReply = "none"

\* ------------------------------------------------------------- helpers
\* A faulty getWiFiIsSaved that reports credentials without reading the
\* configuration; C4 is tested against it.
getWiFiIsSaved_Unchecked == TRUE

\* getWiFiIsSaved: the driver's station configuration holds a non-empty SSID.
getWiFiIsSaved == storedSsid # ""

\* A switch whose default branch leaves WL_DISCONNECTED; C30 is tested
\* against it.
mapDisconnectReason_DefaultDisconnected(reason) ==
    IF reason \in NoApReasons THEN "WL_NO_SSID_AVAIL"
    ELSE IF reason \in AuthReasons THEN "WL_WRONG_PASSWORD"
    ELSE "WL_DISCONNECTED"

\* The switch of wifiEventHandler over the disconnect reason.
mapDisconnectReason(reason) ==
    IF reason \in NoApReasons THEN "WL_NO_SSID_AVAIL"
    ELSE IF reason \in AuthReasons THEN "WL_WRONG_PASSWORD"
    ELSE "WL_CONNECT_FAILED"

\* A faulty portal-timeout test that lacks the "timeout > 0" condition; C6 is
\* tested against it.
portalTimedOut_ZeroExpires ==
    /\ state = WM_STATE_RUN_PORTAL
    /\ portalElapsed > configPortalTimeout

\* updateState tests: the station attempt has run longer than the connect
\* timeout; the portal has run longer than a non-zero portal timeout.
connectTimedOut ==
    state = WM_STATE_TRY_STA /\ connectElapsed > connectTimeout

portalTimedOut ==
    /\ state = WM_STATE_RUN_PORTAL
    /\ configPortalTimeout > 0
    /\ portalElapsed > configPortalTimeout

\* The state one pass of updateState leaves.
updatedState ==
    IF connectTimedOut THEN WM_STATE_START_PORTAL
    ELSE IF portalTimedOut THEN WM_STATE_PORTAL_TIMEOUT
    ELSE state

\* updateState: one pass of the state machine.
updateState ==
    /\ state' = updatedState
    /\ lastConxResult' = IF connectTimedOut THEN "WL_CONNECT_FAILED"
                         ELSE lastConxResult

\* The value process() returns for a state.
processResult(s) == s = WM_STATE_TRY_STA \/ s = WM_STATE_RUN_PORTAL

\* The value a process() call made now returns.
processReturn == processResult(updatedState)

\* The loop condition of the blocking STA wait in autoConnect.
staWaitContinues(s) == s = WM_STATE_TRY_STA

\* The loop condition of the blocking portal wait.
portalWaitContinues(s) == s = WM_STATE_RUN_PORTAL \/ s = WM_STATE_TRY_STA

\* A blocking or non-blocking call returns v.
Return(v) ==
    /\ ret' = BoolStr(v)
    /\ pc' = "idle"

\* The station attempt of the running autoConnect is still within its
\* connect timeout (before _connectStart is recorded it has not begun to run).
InConnectWindow ==
    /\ callKind = "autoConnect"
    /\ \/ pc = "ac_connected"
       \/ pc \in { "ac_loop", "ac_timeout", "ac_done" } /\ connectElapsed <= connectTimeout

\* --------------------------------------------- application: autoConnect
\* autoConnect up to the connect request of startSTA (lines 165-190):
\* the state is reset, setupWiFi registers one more pair of event handlers,
\* and with saved credentials the station connect is requested.
autoConnect ==
    /\ pc = "idle" /\ calls < MaxCalls
    /\ calls' = calls + 1
    /\ callKind' = "autoConnect"
    /\ state' = WM_STATE_INIT
    /\ lastConxResult' = "WL_IDLE_STATUS"
    /\ hadCreds' = getWiFiIsSaved
    /\ ipInWindow' = FALSE
    /\ portalStarted' = FALSE
    /\ \E setupOk \in BOOLEAN, connectOk \in BOOLEAN :
         IF ~setupOk
         THEN /\ Return(FALSE)
              /\ UNCHANGED << handlers, wifiMode, sta, saveCbCalls >>
         ELSE /\ handlers' = handlers + 1
              /\ ret' = "none"
              /\ IF getWiFiIsSaved
                 THEN /\ wifiMode' = "STA"
                      /\ IF connectOk
                         THEN /\ sta' = "connecting"
                              /\ saveCbCalls' = 0
                              /\ pc' = "ac_connected"
                         ELSE /\ pc' = "pi_enter"
                              /\ UNCHANGED << sta, saveCbCalls >>
                 ELSE /\ pc' = "pi_enter"
                      /\ UNCHANGED << wifiMode, sta, saveCbCalls >>
    /\ UNCHANGED << connectElapsed, portalElapsed, connectTimeout,
                    configPortalTimeout, configPortalBlocking, saveConfigCallback,
                    httpServer, dnsRunning, dnsTaskHandle, storedSsid, httpPc, wifiSaveSeen, bootCreds,
                    dnsTaskCreateOk,
                    stopCalls,
                    resetRet,
                    pc2,
                    configModeCalls,
                    params,
                    rawScanResults,
                    apRecords,
                    minimumQuality,
                    removeDuplicateAPs,
                    dnsQuery,
                    dnsReply,
                    portalSeconds,
                    portalTimeoutField,
                    connectSeconds,
                    connectTimeoutField,
                    dnsSocket,
                    dnsSocketOpen,
                    dnsTaskPc,
                    dnsStopPc,
                    dnsStopEnd,
                    dnsSocketAtStop,
                    scanInProgress,
                    current_mode,
                    driverScanning,
                    apCallback,
                    dnsCloses,
                    paramValues,
                    staPassword,
                    httpReply >>

\* autoConnect lines 191-213: the state becomes TRY_STA and the connect start
\* is recorded, after the connect request; non-blocking mode returns true.
autoConnect_TrySta ==
    /\ pc = "ac_connected"
    /\ state' = WM_STATE_TRY_STA
    /\ connectElapsed' = 0
    /\ IF configPortalBlocking
       THEN /\ pc' = "ac_loop"
            /\ UNCHANGED ret
       ELSE Return(TRUE)
    /\ UNCHANGED << lastConxResult, portalElapsed,
                    connectTimeout, configPortalTimeout, configPortalBlocking,
                    saveConfigCallback, httpServer, dnsRunning, dnsTaskHandle, handlers, wifiMode,
                    sta, storedSsid, httpPc, callKind, calls, hadCreds, ipInWindow,
                    portalStarted, wifiSaveSeen, saveCbCalls,
                    bootCreds,
                    dnsTaskCreateOk,
                    stopCalls,
                    resetRet,
                    pc2,
                    configModeCalls,
                    params,
                    rawScanResults,
                    apRecords,
                    minimumQuality,
                    removeDuplicateAPs,
                    dnsQuery,
                    dnsReply,
                    portalSeconds,
                    portalTimeoutField,
                    connectSeconds,
                    connectTimeoutField,
                    dnsSocket,
                    dnsSocketOpen,
                    dnsTaskPc,
                    dnsStopPc,
                    dnsStopEnd,
                    dnsSocketAtStop,
                    scanInProgress,
                    current_mode,
                    driverScanning,
                    apCallback,
                    dnsCloses,
                    paramValues,
                    staPassword,
                    httpReply >>

\* autoConnect lines 196-197: the loop test and updateState.
autoConnect_Wait ==
    /\ pc = "ac_loop"
    /\ IF staWaitContinues(state)
       THEN /\ updateState
            /\ pc' = "ac_timeout"
       ELSE /\ pc' = "ac_done"
            /\ UNCHANGED << state, lastConxResult >>
    /\ UNCHANGED << connectElapsed, portalElapsed,
                    connectTimeout, configPortalTimeout, configPortalBlocking,
                    saveConfigCallback, httpServer, dnsRunning, dnsTaskHandle, handlers, wifiMode,
                    sta, storedSsid, httpPc, callKind, calls, ret,
                    hadCreds, ipInWindow, portalStarted, wifiSaveSeen, saveCbCalls, bootCreds,
                    dnsTaskCreateOk,
                    stopCalls,
                    resetRet,
                    pc2,
                    configModeCalls,
                    params,
                    rawScanResults,
                    apRecords,
                    minimumQuality,
                    removeDuplicateAPs,
                    dnsQuery,
                    dnsReply,
                    portalSeconds,
                    portalTimeoutField,
                    connectSeconds,
                    connectTimeoutField,
                    dnsSocket,
                    dnsSocketOpen,
                    dnsTaskPc,
                    dnsStopPc,
                    dnsStopEnd,
                    dnsSocketAtStop,
                    scanInProgress,
                    current_mode,
                    driverScanning,
                    apCallback,
                    dnsCloses,
                    paramValues,
                    staPassword,
                    httpReply >>

\* autoConnect lines 198-203: after the delay, the loop's own timeout check.
autoConnect_TimeoutCheck ==
    /\ pc = "ac_timeout"
    /\ pc' = IF connectElapsed > connectTimeout THEN "ac_done" ELSE "ac_loop"
    /\ UNCHANGED << state, lastConxResult, connectElapsed,
                    portalElapsed, connectTimeout, configPortalTimeout,
                    configPortalBlocking, saveConfigCallback, httpServer,
                    dnsRunning, dnsTaskHandle, handlers, wifiMode, sta, storedSsid, httpPc,
                    callKind, calls, ret, hadCreds, ipInWindow,
                    portalStarted, wifiSaveSeen, saveCbCalls,
                    bootCreds,
                    dnsTaskCreateOk,
                    stopCalls,
                    resetRet,
                    pc2,
                    configModeCalls,
                    params,
                    rawScanResults,
                    apRecords,
                    minimumQuality,
                    removeDuplicateAPs,
                    dnsQuery,
                    dnsReply,
                    portalSeconds,
                    portalTimeoutField,
                    connectSeconds,
                    connectTimeoutField,
                    dnsSocket,
                    dnsSocketOpen,
                    dnsTaskPc,
                    dnsStopPc,
                    dnsStopEnd,
                    dnsSocketAtStop,
                    scanInProgress,
                    current_mode,
                    driverScanning,
                    apCallback,
                    dnsCloses,
                    paramValues,
                    staPassword,
                    httpReply >>

\* autoConnect lines 206-218: return true in RUN_STA, else go on to the portal.
autoConnect_AfterWait ==
    /\ pc = "ac_done"
    /\ IF state = WM_STATE_RUN_STA
       THEN Return(TRUE)
       ELSE /\ pc' = "pi_enter"
            /\ UNCHANGED ret
    /\ UNCHANGED << state, lastConxResult, connectElapsed,
                    portalElapsed, connectTimeout, configPortalTimeout,
                    configPortalBlocking, saveConfigCallback, httpServer,
                    dnsRunning, dnsTaskHandle, handlers, wifiMode, sta, storedSsid, httpPc,
                    callKind, calls, hadCreds, ipInWindow, portalStarted,
                    wifiSaveSeen, saveCbCalls, bootCreds,
                    dnsTaskCreateOk,
                    stopCalls,
                    resetRet,
                    pc2,
                    configModeCalls,
                    params,
                    rawScanResults,
                    apRecords,
                    minimumQuality,
                    removeDuplicateAPs,
                    dnsQuery,
                    dnsReply,
                    portalSeconds,
                    portalTimeoutField,
                    connectSeconds,
                    connectTimeoutField,
                    dnsSocket,
                    dnsSocketOpen,
                    dnsTaskPc,
                    dnsStopPc,
                    dnsStopEnd,
                    dnsSocketAtStop,
                    scanInProgress,
                    current_mode,
                    driverScanning,
                    apCallback,
                    dnsCloses,
                    paramValues,
                    staPassword,
                    httpReply >>

\* --------------------------------- application: startConfigPortal
\* startConfigPortal: takes the lock and calls startConfigPortalInternal.
startConfigPortal ==
    /\ pc = "idle" /\ calls < MaxCalls
    /\ calls' = calls + 1
    /\ callKind' = "startConfigPortal"
    /\ ret' = "none"
    /\ pc' = "pi_enter"
    /\ ipInWindow' = FALSE
    /\ portalStarted' = FALSE
    /\ UNCHANGED << state, lastConxResult, connectElapsed,
                    portalElapsed, httpServer, dnsRunning, dnsTaskHandle, handlers, wifiMode, sta,
                    storedSsid, httpPc, hadCreds, wifiSaveSeen,
                    saveCbCalls >>
    /\ UNCHANGED configVars

\* startConfigPortalInternal lines 252-281 up to the delay inside startAP:
\* START_PORTAL, the portal start is recorded, setupWiFi registers one more
\* pair of event handlers, and the driver is put in AP-only mode.
startConfigPortalInternal ==
    /\ pc = "pi_enter"
    /\ state' = WM_STATE_START_PORTAL
    /\ portalElapsed' = 0
    /\ \E setupOk \in BOOLEAN, apOk \in BOOLEAN :
         IF ~setupOk
         THEN /\ Return(FALSE)
              /\ UNCHANGED << handlers, wifiMode, sta >>
         ELSE /\ handlers' = handlers + 1
              /\ IF ~apOk
                 THEN /\ Return(FALSE)
                      /\ UNCHANGED << wifiMode, sta >>
                 ELSE /\ wifiMode' = "AP"
                      /\ sta' = "idle"
                      /\ pc' = "pi_ap"
                      /\ UNCHANGED ret
    /\ UNCHANGED << lastConxResult, connectElapsed, httpServer, dnsRunning, dnsTaskHandle,
                    storedSsid, httpPc, callKind, calls, hadCreds, ipInWindow,
                    portalStarted, wifiSaveSeen, saveCbCalls >>
    /\ UNCHANGED configVars

\* The public methods that take the Manager mutex with a lock_guard and
\* that an AP callback can call on the pointer it is given.
LockingMethods == { "process", "stopServers", "startWebPortal", "resetSettings" }

\* What the registered AP callback can be.
ApCallbacks == { "none", "plain" } \cup LockingMethods

\* The task that owns the std::mutex locks it again: the behaviour is
\* undefined.  The lock either never returns or reports the error, which
\* ends the program; in both cases the callback does not return.
RelockOutcomes == { "cb_blocked", "cb_aborted" }

\* startConfigPortalInternal lines 283-335 after the AP came up: the HTTP
\* server and the DNS responder are started, the state becomes RUN_PORTAL
\* and the AP callback is invoked with the caller's lock_guard still in
\* place; non-blocking mode returns true.
startConfigPortalInternal_Servers ==
    /\ pc = "pi_ap"
    /\ \E httpOk \in BOOLEAN :
         IF ~httpServer /\ ~httpOk
         THEN /\ Return(FALSE)
              /\ UNCHANGED << state, httpServer, dnsRunning, dnsTaskHandle, portalStarted >>
         ELSE /\ httpServer' = TRUE
              /\ dnsRunning' = (dnsRunning \/ dnsTaskCreateOk)
              /\ dnsTaskHandle' = IF ~dnsRunning /\ dnsTaskCreateOk
                                  THEN TRUE ELSE dnsTaskHandle
              /\ state' = WM_STATE_RUN_PORTAL
              /\ portalStarted' = TRUE
              /\ IF apCallback \in LockingMethods
                 THEN /\ pc' \in RelockOutcomes
                      /\ UNCHANGED ret
                 ELSE IF configPortalBlocking
                 THEN /\ pc' = "pi_loop"
                      /\ UNCHANGED ret
                 ELSE Return(TRUE)
    /\ UNCHANGED << lastConxResult, connectElapsed,
                    portalElapsed, handlers, wifiMode, sta, storedSsid, httpPc,
                    callKind, calls, hadCreds, ipInWindow, wifiSaveSeen,
                    saveCbCalls >>
    /\ UNCHANGED configVars

\* startConfigPortalInternal lines 309-310: the loop test and updateState.
portal_Wait ==
    /\ pc = "pi_loop"
    /\ IF portalWaitContinues(state)
       THEN /\ updateState
            /\ pc' = "pi_timeout"
       ELSE /\ pc' = "pi_done"
            /\ UNCHANGED << state, lastConxResult >>
    /\ UNCHANGED << connectElapsed, portalElapsed, httpServer,
                    dnsRunning, dnsTaskHandle, handlers, wifiMode, sta, storedSsid, httpPc,
                    callKind, calls, ret, hadCreds, ipInWindow,
                    portalStarted, wifiSaveSeen, saveCbCalls >>
    /\ UNCHANGED configVars

\* A faulty timeout check that leaves the loop without writing
\* PORTAL_TIMEOUT; C5 is tested against it.
portal_TimeoutCheck_BreakOnly ==
    /\ pc = "pi_timeout"
    /\ pc' = IF configPortalTimeout > 0 /\ portalElapsed > configPortalTimeout
             THEN "pi_done" ELSE "pi_loop"
    /\ UNCHANGED << state, lastConxResult, connectElapsed,
                    portalElapsed, httpServer, dnsRunning, dnsTaskHandle, handlers, wifiMode, sta,
                    storedSsid, httpPc, callKind, calls, ret, hadCreds,
                    ipInWindow, portalStarted, wifiSaveSeen, saveCbCalls >>
    /\ UNCHANGED configVars

\* startConfigPortalInternal lines 311-319: after the delay, the loop's own
\* portal-timeout check, which writes PORTAL_TIMEOUT and leaves the loop.
portal_TimeoutCheck ==
    /\ pc = "pi_timeout"
    /\ IF configPortalTimeout > 0 /\ portalElapsed > configPortalTimeout
       THEN /\ state' = WM_STATE_PORTAL_TIMEOUT
            /\ pc' = "pi_done"
       ELSE /\ pc' = "pi_loop"
            /\ UNCHANGED state
    /\ UNCHANGED << lastConxResult, connectElapsed,
                    portalElapsed, httpServer, dnsRunning, dnsTaskHandle, handlers, wifiMode, sta,
                    storedSsid, httpPc, callKind, calls, ret, hadCreds,
                    ipInWindow, portalStarted, wifiSaveSeen, saveCbCalls >>
    /\ UNCHANGED configVars

\* startConfigPortalInternal lines 322-330 and, for autoConnect, lines
\* 220-234: the result is true in RUN_STA and false otherwise; autoConnect
\* then asks for STA-only mode after a connection made through the portal.
portal_Finish ==
    /\ pc = "pi_done"
    /\ Return(state = WM_STATE_RUN_STA)
    /\ \E modeOk \in BOOLEAN :
         wifiMode' = IF callKind = "autoConnect" /\ state = WM_STATE_RUN_STA /\ modeOk
                     THEN "STA" ELSE wifiMode
    /\ UNCHANGED << state, lastConxResult, connectElapsed,
                    portalElapsed, httpServer, dnsRunning, dnsTaskHandle, handlers, sta,
                    storedSsid, httpPc, callKind, calls, hadCreds, ipInWindow,
                    portalStarted, wifiSaveSeen, saveCbCalls >>
    /\ UNCHANGED configVars

\* ------------------------------------------------- application: process
\* process: one updateState under the lock, and the still-working result.
process ==
    /\ pc = "idle"
    /\ updateState
    /\ UNCHANGED << connectElapsed, portalElapsed, httpServer,
                    dnsRunning, dnsTaskHandle, handlers, wifiMode, sta, storedSsid, pc, httpPc,
                    callKind, calls, ret, hadCreds, ipInWindow,
                    portalStarted, wifiSaveSeen, saveCbCalls >>
    /\ UNCHANGED configVars

\* ------------------------------------------------------------------ time
\* One second passes (esp_timer_get_time() grows by one tick).
Tick ==
    /\ connectElapsed < ElapsedCap \/ portalElapsed < ElapsedCap
    /\ connectElapsed' = Min(connectElapsed + 1, ElapsedCap)
    /\ portalElapsed' = Min(portalElapsed + 1, ElapsedCap)
    /\ UNCHANGED << state, lastConxResult, httpServer,
                    dnsRunning, dnsTaskHandle, handlers, wifiMode, sta, storedSsid, pc, httpPc,
                    callKind, calls, ret, hadCreds, ipInWindow,
                    portalStarted, wifiSaveSeen, saveCbCalls >>
    /\ UNCHANGED configVars

\* ---------------------------------------------------------- HTTP server
\* A client can reach the HTTP server through the AP or the joined network.
HttpReachable ==
    /\ httpServer
    /\ wifiMode \in { "AP", "APSTA" } \/ sta = "gotip"

\* handleWifiSave lines 1347-1494: an empty SSID gets the error page; else
\* AP+STA mode is requested, the credentials are written to the station
\* configuration and the connect request is issued (its error is ignored).
handleWifiSave(ssid) ==
    /\ HttpReachable /\ httpPc = "idle"
    /\ IF ssid = ""
       THEN UNCHANGED << wifiMode, storedSsid, sta, saveCbCalls, wifiSaveSeen, httpPc >>
       ELSE \E modeOk \in BOOLEAN, configOk \in BOOLEAN, connectOk \in BOOLEAN :
              IF ~modeOk
              THEN UNCHANGED << wifiMode, storedSsid, sta, saveCbCalls, wifiSaveSeen, httpPc >>
              ELSE /\ wifiMode' = "APSTA"
                   /\ IF ~configOk
                      THEN UNCHANGED << storedSsid, sta, saveCbCalls, wifiSaveSeen, httpPc >>
                      ELSE /\ storedSsid' = ssid
                           /\ sta' = IF connectOk THEN "connecting" ELSE "idle"
                           /\ saveCbCalls' = 0
                           /\ wifiSaveSeen' = TRUE
                           /\ httpPc' = "ws_connected"
    /\ UNCHANGED << state, lastConxResult, connectElapsed,
                    portalElapsed, httpServer, dnsRunning, dnsTaskHandle, handlers, pc, callKind,
                    calls, ret, hadCreds, ipInWindow, portalStarted >>
    /\ UNCHANGED configVars

\* handleWifiSave lines 1496-1498: after the connect request, the state
\* becomes TRY_STA and the connect start is recorded.
handleWifiSave_TrySta ==
    /\ httpPc = "ws_connected"
    /\ state' = WM_STATE_TRY_STA
    /\ connectElapsed' = 0
    /\ httpPc' = "idle"
    /\ UNCHANGED << lastConxResult, portalElapsed, httpServer,
                    dnsRunning, dnsTaskHandle, handlers, wifiMode, sta, storedSsid, pc, callKind,
                    calls, ret, hadCreds, ipInWindow, portalStarted,
                    wifiSaveSeen, saveCbCalls >>
    /\ UNCHANGED configVars

\* handleExit: signals the portal to close.
handleExit ==
    /\ HttpReachable /\ httpPc = "idle"
    /\ state' = WM_STATE_PORTAL_ABORT
    /\ UNCHANGED << lastConxResult, connectElapsed, portalElapsed, httpServer,
                    dnsRunning, dnsTaskHandle, handlers, wifiMode, sta, storedSsid, pc, httpPc,
                    callKind, calls, ret, hadCreds, ipInWindow,
                    portalStarted, wifiSaveSeen, saveCbCalls >>
    /\ UNCHANGED configVars

\* ------------------------------------------------------------ event loop
\* Every registered handler instance is run for an event; running
\* wifiEventHandler twice has the effect of running it once.

\* A faulty handler that treats the link-layer connection as the success;
\* C8 is tested against it.
wifiEvent_StaConnected_AsSuccess ==
    /\ handlers > 0 /\ sta = "connecting"
    /\ sta' = "associated"
    /\ state' = WM_STATE_RUN_STA
    /\ lastConxResult' = "WL_CONNECTED"
    /\ UNCHANGED << connectElapsed,
                    portalElapsed, httpServer, dnsRunning, dnsTaskHandle, handlers, wifiMode,
                    storedSsid, pc, httpPc, callKind, calls, ret,
                    hadCreds, ipInWindow, portalStarted, wifiSaveSeen, saveCbCalls >>
    /\ UNCHANGED configVars

\* WIFI_EVENT_STA_CONNECTED: logged only.
wifiEvent_StaConnected ==
    /\ handlers > 0 /\ sta = "connecting"
    /\ sta' = "associated"
    /\ UNCHANGED << state, lastConxResult, connectElapsed,
                    portalElapsed, httpServer, dnsRunning, dnsTaskHandle, handlers, wifiMode,
                    storedSsid, pc, httpPc, callKind, calls, ret,
                    hadCreds, ipInWindow, portalStarted, wifiSaveSeen, saveCbCalls >>
    /\ UNCHANGED configVars

\* A faulty handler that answers a disconnect in TRY_STA with another connect
\* request; C9 is tested against it.
wifiEvent_StaDisconnected_Retrying(reason) ==
    /\ handlers > 0 /\ sta # "idle"
    /\ sta' = IF state = WM_STATE_TRY_STA THEN "connecting" ELSE "idle"
    /\ lastConxResult' = mapDisconnectReason(reason)
    /\ UNCHANGED << state, connectElapsed, portalElapsed, httpServer,
                    dnsRunning, dnsTaskHandle, handlers, wifiMode, storedSsid, pc, httpPc,
                    callKind, calls, ret, hadCreds, ipInWindow,
                    portalStarted, wifiSaveSeen, saveCbCalls >>
    /\ UNCHANGED configVars

\* WIFI_EVENT_STA_DISCONNECTED: the reason is mapped to the last connection
\* result, and TRY_STA becomes START_PORTAL.
wifiEvent_StaDisconnected(reason) ==
    /\ handlers > 0 /\ sta # "idle"
    /\ sta' = "idle"
    /\ lastConxResult' = mapDisconnectReason(reason)
    /\ state' = IF state = WM_STATE_TRY_STA THEN WM_STATE_START_PORTAL ELSE state
    /\ UNCHANGED << connectElapsed, portalElapsed, httpServer,
                    dnsRunning, dnsTaskHandle, handlers, wifiMode, storedSsid, pc, httpPc,
                    callKind, calls, ret, hadCreds, ipInWindow,
                    portalStarted, wifiSaveSeen, saveCbCalls >>
    /\ UNCHANGED configVars

\* IP_EVENT_STA_GOT_IP: WL_CONNECTED, RUN_STA and the save-config callback,
\* once per registered handler instance.
ipEvent_GotIp ==
    /\ handlers > 0 /\ sta = "associated"
    /\ sta' = "gotip"
    /\ lastConxResult' = "WL_CONNECTED"
    /\ state' = WM_STATE_RUN_STA
    /\ saveCbCalls' = saveCbCalls + (IF saveConfigCallback THEN handlers ELSE 0)
    /\ ipInWindow' = (ipInWindow \/ InConnectWindow)
    /\ UNCHANGED << connectElapsed, portalElapsed, httpServer,
                    dnsRunning, dnsTaskHandle, handlers, wifiMode, storedSsid, pc, httpPc,
                    callKind, calls, ret, hadCreds, portalStarted,
                    wifiSaveSeen >>
    /\ UNCHANGED configVars

\* IP_EVENT_STA_LOST_IP: WL_CONNECTION_LOST.
ipEvent_LostIp ==
    /\ handlers > 0 /\ sta = "gotip"
    /\ lastConxResult' = "WL_CONNECTION_LOST"
    /\ UNCHANGED << state, sta, connectElapsed, portalElapsed,
                    httpServer, dnsRunning, dnsTaskHandle, handlers, wifiMode, storedSsid, pc,
                    httpPc, callKind, calls, ret, hadCreds, ipInWindow,
                    portalStarted, wifiSaveSeen, saveCbCalls >>
    /\ UNCHANGED configVars

\* IP_EVENT_AP_STAIPASSIGNED (a client joined the AP): logged only.
ipEvent_ApStaIpAssigned ==
    /\ handlers > 0 /\ wifiMode \in { "AP", "APSTA" }
    /\ UNCHANGED vars

\* ------------------------------------------------- servers: stop, start
\* The server fields of the Manager, as the stop functions read them.
ServerFields ==
    [ httpServer |-> httpServer, dnsRunning |-> dnsRunning,
      dnsTaskHandle |-> dnsTaskHandle ]

\* stopHTTPServer: a non-null handle is stopped and cleared (also when
\* httpd_stop reports an error); a null handle is left alone.
stopHTTPServer(s) == [ s EXCEPT !.httpServer = FALSE ]

\* A faulty stopDNSServer that ends the task but forgets to clear the
\* running flag; C12 is tested against it.
stopDNSServer_KeepingFlag(s) ==
    IF ~s.dnsRunning THEN s ELSE [ s EXCEPT !.dnsTaskHandle = FALSE ]

\* stopDNSServer: returns at once when the running flag is false; else the
\* flag is cleared, the task ends by itself within the wait or is deleted,
\* and either way the task handle is null afterwards.
stopDNSServer(s) ==
    IF ~s.dnsRunning THEN s
    ELSE [ s EXCEPT !.dnsRunning = FALSE, !.dnsTaskHandle = FALSE ]

\* stopServers between its lock and unlock (_cleanupInProgress is false at
\* every entry, since it is set and cleared under the lock).
stopServersResult(s) == stopDNSServer(stopHTTPServer(s))

\* The stop operations (httpd_stop, the DNS shutdown) a stopServers call
\* performs from s.
stopOperations(s) ==
    (IF s.httpServer THEN 1 ELSE 0) + (IF s.dnsRunning THEN 1 ELSE 0)

\* stopServers, called by the application when no other call holds the lock.
stopServers ==
    /\ pc = "idle" /\ stopCalls < MaxStops
    /\ stopCalls' = stopCalls + 1
    /\ httpServer' = stopServersResult(ServerFields).httpServer
    /\ dnsRunning' = stopServersResult(ServerFields).dnsRunning
    /\ dnsTaskHandle' = stopServersResult(ServerFields).dnsTaskHandle
    /\ UNCHANGED << state, lastConxResult, connectElapsed, portalElapsed,
                    connectTimeout, configPortalTimeout, configPortalBlocking,
                    saveConfigCallback, handlers, wifiMode, sta, storedSsid,
                    pc, httpPc, callKind, calls, ret, hadCreds, ipInWindow,
                    portalStarted, wifiSaveSeen, saveCbCalls, bootCreds,
                    dnsTaskCreateOk,
                    resetRet,
                    pc2,
                    configModeCalls,
                    params,
                    rawScanResults,
                    apRecords,
                    minimumQuality,
                    removeDuplicateAPs,
                    dnsQuery,
                    dnsReply,
                    portalSeconds,
                    portalTimeoutField,
                    connectSeconds,
                    connectTimeoutField,
                    dnsSocket,
                    dnsSocketOpen,
                    dnsTaskPc,
                    dnsStopPc,
                    dnsStopEnd,
                    dnsSocketAtStop,
                    scanInProgress,
                    current_mode,
                    driverScanning,
                    apCallback,
                    dnsCloses,
                    paramValues,
                    staPassword,
                    httpReply >>

\* startWebPortal: starts the HTTP server alone (startHTTPServer returns
\* true when it is already running).
startWebPortal ==
    /\ pc = "idle"
    /\ \E httpOk \in BOOLEAN : httpServer' = (httpServer \/ httpOk)
    /\ UNCHANGED << state, lastConxResult, connectElapsed, portalElapsed,
                    dnsRunning, dnsTaskHandle, handlers, wifiMode, sta,
                    storedSsid, pc, httpPc, callKind, calls, ret, hadCreds,
                    ipInWindow, portalStarted, wifiSaveSeen, saveCbCalls >>
    /\ UNCHANGED configVars

\* dnsServerTask ends by itself (socket or bind failure, receive error): it
\* clears its task handle and leaves the running flag as it is.
dnsServerTask_Exit ==
    /\ dnsTaskHandle
    /\ dnsTaskHandle' = FALSE
    /\ UNCHANGED << state, lastConxResult, connectElapsed, portalElapsed,
                    httpServer, dnsRunning, handlers, wifiMode, sta,
                    storedSsid, pc, httpPc, callKind, calls, ret, hadCreds,
                    ipInWindow, portalStarted, wifiSaveSeen, saveCbCalls >>
    /\ UNCHANGED configVars

\* --------------------------------------------------------- resetSettings
\* esp_wifi_restore can succeed only on an initialised driver (esp_wifi_init
\* is called by setupWiFi).
wifiInitialised == handlers > 0

\* A faulty resetSettings that reports success whatever esp_wifi_restore
\* returned; C13 is tested against it.
resetSettings_IgnoringFailure ==
    /\ pc = "idle"
    /\ sta' = IF sta = "idle" THEN "idle" ELSE "leaving"
    /\ \E eraseOk \in (IF wifiInitialised THEN BOOLEAN ELSE { FALSE }) :
         /\ storedSsid' = IF eraseOk THEN "" ELSE storedSsid
         /\ resetRet' = "true"
    /\ UNCHANGED << state, lastConxResult, connectElapsed, portalElapsed,
                    connectTimeout, configPortalTimeout, configPortalBlocking,
                    saveConfigCallback, httpServer, dnsRunning, dnsTaskHandle,
                    handlers, wifiMode, pc, httpPc, callKind, calls, ret,
                    hadCreds, ipInWindow, portalStarted, wifiSaveSeen,
                    saveCbCalls, bootCreds, dnsTaskCreateOk, stopCalls,
                    pc2,
                    configModeCalls,
                    params,
                    rawScanResults,
                    apRecords,
                    minimumQuality,
                    removeDuplicateAPs,
                    dnsQuery,
                    dnsReply,
                    portalSeconds,
                    portalTimeoutField,
                    connectSeconds,
                    connectTimeoutField,
                    dnsSocket,
                    dnsSocketOpen,
                    dnsTaskPc,
                    dnsStopPc,
                    dnsStopEnd,
                    dnsSocketAtStop,
                    scanInProgress,
                    current_mode,
                    driverScanning,
                    apCallback,
                    dnsCloses,
                    paramValues,
                    staPassword,
                    httpReply >>

\* resetSettings: the station is told to disconnect (the disconnect event
\* follows from the event loop), then esp_wifi_restore erases the stored
\* station configuration; the result is false when the erase fails.
resetSettings ==
    /\ pc = "idle"
    /\ sta' = IF sta = "idle" THEN "idle" ELSE "leaving"
    /\ \E eraseOk \in (IF wifiInitialised THEN BOOLEAN ELSE { FALSE }) :
         /\ storedSsid' = IF eraseOk THEN "" ELSE storedSsid
         /\ resetRet' = BoolStr(eraseOk)
    /\ UNCHANGED << state, lastConxResult, connectElapsed, portalElapsed,
                    connectTimeout, configPortalTimeout, configPortalBlocking,
                    saveConfigCallback, httpServer, dnsRunning, dnsTaskHandle,
                    handlers, wifiMode, pc, httpPc, callKind, calls, ret,
                    hadCreds, ipInWindow, portalStarted, wifiSaveSeen,
                    saveCbCalls, bootCreds, dnsTaskCreateOk, stopCalls,
                    pc2,
                    configModeCalls,
                    params,
                    rawScanResults,
                    apRecords,
                    minimumQuality,
                    removeDuplicateAPs,
                    dnsQuery,
                    dnsReply,
                    portalSeconds,
                    portalTimeoutField,
                    connectSeconds,
                    connectTimeoutField,
                    dnsSocket,
                    dnsSocketOpen,
                    dnsTaskPc,
                    dnsStopPc,
                    dnsStopEnd,
                    dnsSocketAtStop,
                    scanInProgress,
                    current_mode,
                    driverScanning,
                    apCallback,
                    dnsCloses,
                    paramValues,
                    staPassword,
                    httpReply >>

\* ------------------------------------------------------------ the mutex
\* The Manager mutex is taken by a lock_guard at the entry of every public
\* call and released at its return: the application task holds it exactly
\* while it is inside a call.  The event handlers and the HTTP handlers take
\* no lock.
mutexHeld == pc # "idle"

\* ---------------------------------------------------------- a second task
\* A second task calls process(): its lock_guard waits for the mutex.
otherTask_Call ==
    /\ pc2 = "idle"
    /\ pc2' = "waiting"
    /\ UNCHANGED << state, lastConxResult, connectElapsed, portalElapsed,
                    connectTimeout, configPortalTimeout, configPortalBlocking,
                    saveConfigCallback, httpServer, dnsRunning, dnsTaskHandle,
                    handlers, wifiMode, sta, storedSsid, pc, httpPc, callKind,
                    calls, ret, hadCreds, ipInWindow, portalStarted,
                    wifiSaveSeen, saveCbCalls, bootCreds, dnsTaskCreateOk,
                    stopCalls, resetRet,
                    configModeCalls,
                    params,
                    rawScanResults,
                    apRecords,
                    minimumQuality,
                    removeDuplicateAPs,
                    dnsQuery,
                    dnsReply,
                    portalSeconds,
                    portalTimeoutField,
                    connectSeconds,
                    connectTimeoutField,
                    dnsSocket,
                    dnsSocketOpen,
                    dnsTaskPc,
                    dnsStopPc,
                    dnsStopEnd,
                    dnsSocketAtStop,
                    scanInProgress,
                    current_mode,
                    driverScanning,
                    apCallback,
                    dnsCloses,
                    paramValues,
                    staPassword,
                    httpReply >>

\* The second task gets the mutex once no call holds it, runs process()
\* (one updateState) and returns.
otherTask_Run ==
    /\ pc2 = "waiting" /\ ~mutexHeld
    /\ pc2' = "idle"
    /\ updateState
    /\ UNCHANGED << connectElapsed, portalElapsed,
                    connectTimeout, configPortalTimeout, configPortalBlocking,
                    saveConfigCallback, httpServer, dnsRunning, dnsTaskHandle,
                    handlers, wifiMode, sta, storedSsid, pc, httpPc, callKind,
                    calls, ret, hadCreds, ipInWindow, portalStarted,
                    wifiSaveSeen, saveCbCalls, bootCreds, dnsTaskCreateOk,
                    stopCalls, resetRet,
                    configModeCalls,
                    params,
                    rawScanResults,
                    apRecords,
                    minimumQuality,
                    removeDuplicateAPs,
                    dnsQuery,
                    dnsReply,
                    portalSeconds,
                    portalTimeoutField,
                    connectSeconds,
                    connectTimeoutField,
                    dnsSocket,
                    dnsSocketOpen,
                    dnsTaskPc,
                    dnsStopPc,
                    dnsStopEnd,
                    dnsSocketAtStop,
                    scanInProgress,
                    current_mode,
                    driverScanning,
                    apCallback,
                    dnsCloses,
                    paramValues,
                    staPassword,
                    httpReply >>

\* ------------------------------------------------------- specifications
AppStep ==
    \/ autoConnect_TrySta
    \/ autoConnect_Wait
    \/ autoConnect_TimeoutCheck
    \/ autoConnect_AfterWait
    \/ startConfigPortalInternal
    \/ startConfigPortalInternal_Servers
    \/ portal_Wait
    \/ portal_TimeoutCheck
    \/ portal_Finish

AppCall ==
    \/ autoConnect
    \/ startConfigPortal

HttpStep ==
    \/ \E ssid \in FormSsids : handleWifiSave(ssid)
    \/ handleWifiSave_TrySta
    \/ handleExit

EventStep ==
    \/ wifiEvent_StaConnected
    \/ \E reason \in Reasons : wifiEvent_StaDisconnected(reason)
    \/ ipEvent_GotIp
    \/ ipEvent_LostIp
    \/ ipEvent_ApStaIpAssigned

Next == AppCall \/ AppStep \/ process \/ Tick \/ HttpStep \/ EventStep

Spec == Init /\ [][Next]_vars

\* The application task keeps running, time keeps passing, and the
\* application keeps calling process(); events and HTTP requests may or may
\* not come.
SpecLive ==
    /\ Init /\ [][Next]_vars
    /\ WF_vars(AppStep) /\ WF_vars(Tick) /\ WF_vars(process)

\* A run without portal interaction: no HTTP request and no network event.
NextQuiet == AppCall \/ AppStep \/ process \/ Tick

SpecQuiet ==
    /\ Init /\ [][NextQuiet]_vars
    /\ WF_vars(AppStep) /\ WF_vars(Tick)

\* The application's calls, stopServers, startWebPortal and resetSettings
\* among them, with
\* time, the network events and the DNS task, and no HTTP request.
ApiCall == stopServers \/ startWebPortal \/ resetSettings

NextApi == NextQuiet \/ EventStep \/ ApiCall \/ dnsServerTask_Exit

SpecApi == Init /\ [][NextApi]_vars

\* Two application tasks: one makes the autoConnect / startConfigPortal
\* calls, the other calls process(); both are scheduled, time passes, and
\* nobody uses the portal.
NextTasks == NextQuiet \/ otherTask_Call \/ otherTask_Run

SpecTasks ==
    /\ Init /\ [][NextTasks]_vars
    /\ WF_vars(AppStep) /\ WF_vars(Tick) /\ WF_vars(otherTask_Run)

\* startDNSServer lines 682-689: xTaskCreate stops returning pdPASS (the
\* heap can no longer hold the responder's stack); every later
\* startDNSServer clears _dnsRunning again and returns false.
xTaskCreate_Fails ==
    /\ dnsTaskCreateOk
    /\ dnsTaskCreateOk' = FALSE
    /\ UNCHANGED << state, lastConxResult, connectElapsed, portalElapsed,
                    connectTimeout, configPortalTimeout, configPortalBlocking,
                    saveConfigCallback, httpServer, dnsRunning, dnsTaskHandle,
                    handlers, wifiMode, sta, storedSsid, pc, httpPc, callKind,
                    calls, ret, hadCreds, ipInWindow, portalStarted,
                    wifiSaveSeen, saveCbCalls, bootCreds, stopCalls, resetRet,
                    pc2, configModeCalls, params, rawScanResults, apRecords, minimumQuality, removeDuplicateAPs, dnsQuery, dnsReply, portalSeconds, portalTimeoutField, connectSeconds, connectTimeoutField, dnsSocket, dnsSocketOpen, dnsTaskPc, dnsStopPc, dnsStopEnd, dnsSocketAtStop, scanInProgress, current_mode, driverScanning, apCallback, dnsCloses, paramValues, staPassword, httpReply >>

\* The application's calls and time, on a platform where the creation of
\* the DNS responder task can start failing.
NextFaults == NextQuiet \/ xTaskCreate_Fails

SpecFaults == Init /\ [][NextFaults]_vars


\* The variables of the scan engine, and those of the DNS packet handling.
scanVars == << rawScanResults, apRecords, minimumQuality, removeDuplicateAPs >>

dnsVars == << dnsQuery, dnsReply >>

timeoutVars == << portalSeconds, portalTimeoutField, connectSeconds,
                 connectTimeoutField >>

\* The variables of the DNS task and of the stopDNSServer call in progress.
dnsTaskVars == << dnsSocket, dnsSocketOpen, dnsTaskPc, dnsStopPc, dnsStopEnd,
                 dnsSocketAtStop, dnsCloses >>

\* The registered AP callback.
callbackVars == << apCallback >>

\* The /wifisave form handling.
formVars == << paramValues, staPassword, httpReply >>

\* The scan request in progress.
scanModeVars == << scanInProgress, current_mode, driverScanning >>

\* Everything but the DNS server's fields and task.
nonDnsVars == << state, lastConxResult, connectElapsed, portalElapsed,
                 connectTimeout, configPortalTimeout, configPortalBlocking,
                 saveConfigCallback, httpServer, handlers, wifiMode, sta,
                 storedSsid, pc, httpPc, callKind, calls, ret, hadCreds,
                 ipInWindow, portalStarted, wifiSaveSeen, saveCbCalls,
                 bootCreds, dnsTaskCreateOk, stopCalls, resetRet, pc2,
                 configModeCalls, params, scanVars, dnsVars, timeoutVars,
                 scanModeVars, callbackVars, formVars >>

\* ------------------------------------------------------ scan and filter

\* wifi_ap_record_t, reduced to the fields the filter reads: an SSID (""
\* for a hidden network) and an RSSI in dBm.
ScanSsids == { "", "NetA", "NetB" }

ScanRssis == { 0 - 95, 0 - 40 }

ApRecords == [ ssid : ScanSsids, rssi : ScanRssis ]

\* The record lists the driver can deliver.
ScanInputs == UNION { [ 1..n -> ApRecords ] : n \in 0..MaxAps }

\* The values the application gives setMinimumSignalQuality.
QualityArgs == { 0, 50, 110 }

\* A quality without the clamp to 0..100; C23 is tested against it.
calculateSignalQuality_Unclamped(rssi) == 2 * (rssi + 100)

\* calculateSignalQuality lines 1164-1171.
calculateSignalQuality(rssi) ==
    LET quality == 2 * (rssi + 100)
    IN  IF quality > 100 THEN 100 ELSE IF quality < 0 THEN 0 ELSE quality

\* A duplicate test that never finds one; C22 is tested against it.
isDuplicateSSID_Never(ssid, results) == FALSE

\* isDuplicateSSID lines 1155-1162.
isDuplicateSSID(ssid, results) ==
    \E i \in 1..Len(results) : results[i].ssid = ssid

\* A duplicate handling that keeps the first record seen; C24 is tested
\* against it.
replaceIfStronger_KeepFirst(filtered, ap) == filtered

\* filterScanResults lines 1200-1209: the first record of the same SSID is
\* replaced when the new one has the stronger signal.
replaceIfStronger(filtered, ap) ==
    LET k == CHOOSE i \in 1..Len(filtered) :
                 /\ filtered[i].ssid = ap.ssid
                 /\ \A j \in 1..(i - 1) : filtered[j].ssid # ap.ssid
    IN  IF ap.rssi > filtered[k].rssi
        THEN [ filtered EXCEPT ![k] = ap ] ELSE filtered

\* filterScanResults lines 1180-1216: the loop over the raw records, from
\* record i on, with the records kept so far.
RECURSIVE filterLoop(_, _, _, _, _)
filterLoop(raw, i, filtered, minQuality, removeDup) ==
    IF i > Len(raw) THEN filtered
    ELSE LET ap == raw[i]
             kept ==
                 IF ap.ssid = "" THEN filtered
                 ELSE IF minQuality > 0
                         /\ calculateSignalQuality(ap.rssi) < minQuality
                      THEN filtered
                 ELSE IF removeDup /\ isDuplicateSSID(ap.ssid, filtered)
                      THEN replaceIfStronger(filtered, ap)
                 ELSE Append(filtered, ap)
         IN  filterLoop(raw, i + 1, kept, minQuality, removeDup)

\* The comparator of the std::sort at lines 1219-1222.
strongerFirst(a, b) == a.rssi > b.rssi

\* The orders std::sort can leave a list in: it is not stable, so records
\* of equal RSSI come out in any order.
sortedOrders(s) ==
    IF s = << >> THEN { << >> }
    ELSE { t \in { [ i \in 1..Len(s) |-> s[p[i]] ] : p \in Permutations(1..Len(s)) } :
             \A i, j \in 1..Len(t) : i < j => ~strongerFirst(t[j], t[i]) }

\* filterScanResults lines 1173-1225: the lists it can leave in
\* _rawScanResults for a raw list and a configuration.
filteredResults(raw, minQuality, removeDup) ==
    IF raw = << >> THEN { raw }
    ELSE sortedOrders(filterLoop(raw, 1, << >>, minQuality, removeDup))

\* setMinimumSignalQuality lines 769-772.
setMinimumSignalQuality(percent) ==
    /\ minimumQuality' = percent
    /\ UNCHANGED << rawScanResults, apRecords, removeDuplicateAPs >>
    /\ UNCHANGED << machineVars, params, dnsVars, timeoutVars, dnsTaskVars, scanModeVars, callbackVars, formVars >>

\* setRemoveDuplicateAPs lines 774-777.
setRemoveDuplicateAPs(remove) ==
    /\ removeDuplicateAPs' = remove
    /\ UNCHANGED << rawScanResults, apRecords, minimumQuality >>
    /\ UNCHANGED << machineVars, params, dnsVars, timeoutVars, dnsTaskVars, scanModeVars, callbackVars, formVars >>

\* performWiFiScan lines 1132-1133: the driver's records are copied into
\* _rawScanResults.
esp_wifi_scan_get_ap_records(records) ==
    /\ rawScanResults' = records
    /\ apRecords' = records
    /\ UNCHANGED << minimumQuality, removeDuplicateAPs >>
    /\ UNCHANGED << machineVars, params, dnsVars, timeoutVars, dnsTaskVars, scanModeVars, callbackVars, formVars >>

\* filterScanResults lines 1173-1225, applied to the records just copied.
filterScanResults ==
    /\ rawScanResults = apRecords
    /\ rawScanResults' \in filteredResults(rawScanResults, minimumQuality,
                                           removeDuplicateAPs)
    /\ UNCHANGED << apRecords, minimumQuality, removeDuplicateAPs >>
    /\ UNCHANGED << machineVars, params, dnsVars, timeoutVars, dnsTaskVars, scanModeVars, callbackVars, formVars >>

NextScan ==
    \/ \E percent \in QualityArgs : setMinimumSignalQuality(percent)
    \/ \E remove \in BOOLEAN : setRemoveDuplicateAPs(remove)
    \/ \E records \in ScanInputs : esp_wifi_scan_get_ap_records(records)
    \/ filterScanResults

SpecScan == Init /\ [][NextScan]_vars

\* -------------------------------------------------------- DNS responder
\* A datagram is its length class, the counts of its header and the entries
\* that follow the header.  "short" is shorter than a DNS header, "long"
\* leaves no room for 16 more bytes in the 512-byte response buffer.
DnsQuestion(t) == [ kind |-> "question", type |-> t, ttl |-> 0, rdata |-> "" ]

DnsOptRecord == [ kind |-> "record", type |-> "OPT", ttl |-> 0, rdata |-> "" ]

\* Lines 1021-1044: name pointer 0xC00C, type A, class IN, TTL 0x3C, four
\* bytes 192.168.4.1.
PortalAnswer == [ kind |-> "record", type |-> "A", ttl |-> 60, rdata |-> "192.168.4.1" ]

DnsQueryItems == { DnsQuestion("A"), DnsQuestion("AAAA"), DnsOptRecord }

DnsBodies == UNION { [ 1..n -> DnsQueryItems ] : n \in 0..MaxDnsItems }

ShortDatagram == [ len |-> "short", qdcount |-> 0, arcount |-> 0, body |-> << >> ]

DnsDatagrams ==
    { ShortDatagram } \cup
    [ len : { "normal", "long" }, qdcount : 0..MaxDnsItems, arcount : 0..1,
      body : DnsBodies ]

NoReply == [ sent |-> FALSE, qr |-> FALSE, aa |-> FALSE, qdcount |-> 0,
             ancount |-> 0, nscount |-> 0, arcount |-> 0, body |-> << >> ]

\* dnsServerTask lines 1003-1050: the response to one datagram.  A datagram
\* of at least a header's length is copied whole, the header gets the
\* response and authoritative flags and ancount = qdcount, and one A record
\* is appended behind the copy when 16 more bytes fit.
dnsResponse(query) ==
    IF query.len = "short" THEN NoReply
    ELSE [ sent |-> TRUE, qr |-> TRUE, aa |-> TRUE,
           qdcount |-> query.qdcount, ancount |-> query.qdcount,
           nscount |-> 0, arcount |-> 0,
           body |-> IF query.len = "long" THEN query.body
                    ELSE Append(query.body, PortalAnswer) ]

\* dnsServerTask lines 997-1052: one pass of the receive loop with a
\* datagram received.
dnsServerTask_Receive(query) ==
    /\ dnsQuery' = query
    /\ dnsReply' = dnsResponse(query)
    /\ UNCHANGED << machineVars, params, scanVars, timeoutVars, dnsTaskVars, scanModeVars, callbackVars, formVars >>

NextDns == \E query \in DnsDatagrams : dnsServerTask_Receive(query)

SpecDns == Init /\ [][NextDns]_vars

\* ------------------------------------------------------ timeout setters
\* The seconds an application passes: none, small, the default, the
\* largest value whose microseconds fit 32 bits, the next one, and 2^26.
TimeoutArgs == { 0, 1, WM_DEFAULT_PORTAL_TIMEOUT, 4294, 4295, 2^26 }

\* setConfigPortalTimeout lines 371-374.
setConfigPortalTimeout(seconds) ==
    /\ portalSeconds' = seconds
    /\ portalTimeoutField' = secondsToField(seconds)
    /\ UNCHANGED << connectSeconds, connectTimeoutField >>
    /\ UNCHANGED << machineVars, params, scanVars, dnsVars, dnsTaskVars, scanModeVars, callbackVars, formVars >>

\* setConnectTimeout lines 376-379.
setConnectTimeout(seconds) ==
    /\ connectSeconds' = seconds
    /\ connectTimeoutField' = secondsToField(seconds)
    /\ UNCHANGED << portalSeconds, portalTimeoutField >>
    /\ UNCHANGED << machineVars, params, scanVars, dnsVars, dnsTaskVars, scanModeVars, callbackVars, formVars >>

NextTimeouts ==
    \/ \E seconds \in TimeoutArgs : setConfigPortalTimeout(seconds)
    \/ \E seconds \in TimeoutArgs : setConnectTimeout(seconds)

SpecTimeouts == Init /\ [][NextTimeouts]_vars

\* ------------------------------------------- DNS task start and shutdown
\* startDNSServer lines 672-693, with the task it creates.
startDNSServer ==
    /\ dnsStopPc = "idle"
    /\ IF dnsRunning
       THEN UNCHANGED << dnsRunning, dnsTaskHandle, dnsTaskPc, dnsCloses >>
       ELSE IF dnsTaskCreateOk
            THEN /\ dnsRunning' = TRUE
                 /\ dnsTaskHandle' = TRUE
                 /\ dnsTaskPc' = "socket"
                 /\ dnsCloses' = 0
            ELSE UNCHANGED << dnsRunning, dnsTaskHandle, dnsTaskPc, dnsCloses >>
    /\ UNCHANGED << dnsSocket, dnsSocketOpen, dnsStopPc, dnsStopEnd,
                    dnsSocketAtStop >>
    /\ UNCHANGED nonDnsVars

\* The one descriptor number the model gives the DNS socket.
DnsFd == 1

\* close(_dnsSocket) in one task while the other task writes the field: the
\* two accesses are not ordered, so the call passes the descriptor its
\* test has just seen or the value the field holds now.
closeArgs == { DnsFd, dnsSocket }

\* A close that never reaches the descriptor; C28 is tested against it.
close_Skipped(fd) ==
    UNCHANGED << dnsSocketOpen, dnsCloses >>

\* close(fd): nothing for a negative descriptor.
close(fd) ==
    IF fd >= 0
    THEN /\ dnsSocketOpen' = FALSE
         /\ dnsCloses' = dnsCloses + 1
    ELSE UNCHANGED << dnsSocketOpen, dnsCloses >>

\* dnsServerTask lines 978-989: socket() and bind().  A failing socket()
\* leaves -1 in the field, a failing bind() an open socket; the task then
\* goes to its cleanup.
dnsServerTask_Socket ==
    /\ dnsTaskHandle /\ dnsTaskPc = "socket"
    /\ \E result \in { "ok", "socket_failed", "bind_failed" } :
         /\ dnsSocket' = IF result = "socket_failed" THEN 0 - 1 ELSE DnsFd
         /\ dnsSocketOpen' = (result # "socket_failed")
         /\ dnsTaskPc' = IF result = "ok" THEN "loop" ELSE "cleanup"
    /\ UNCHANGED << dnsRunning, dnsTaskHandle, dnsStopPc, dnsStopEnd,
                    dnsSocketAtStop, dnsCloses >>
    /\ UNCHANGED nonDnsVars

\* dnsServerTask line 993: the loop test on _dnsRunning.
dnsServerTask_LoopTest ==
    /\ dnsTaskHandle /\ dnsTaskPc = "loop"
    /\ dnsTaskPc' = IF dnsRunning THEN "recvfrom" ELSE "cleanup"
    /\ UNCHANGED << dnsRunning, dnsTaskHandle, dnsSocket, dnsSocketOpen,
                    dnsStopPc, dnsStopEnd, dnsSocketAtStop, dnsCloses >>
    /\ UNCHANGED nonDnsVars

\* dnsServerTask lines 994-1059: recvfrom returns.  On an open socket it
\* returns a datagram (answered, then the loop goes on) or an error; on a
\* descriptor that has been closed it returns an error, and the task
\* leaves the loop.  It may also never return.
dnsServerTask_Recvfrom ==
    /\ dnsTaskHandle /\ dnsTaskPc = "recvfrom"
    /\ \E received \in (IF dnsSocketOpen THEN BOOLEAN ELSE { FALSE }) :
         dnsTaskPc' = IF received THEN "loop" ELSE "cleanup"
    /\ UNCHANGED << dnsRunning, dnsTaskHandle, dnsSocket, dnsSocketOpen,
                    dnsStopPc, dnsStopEnd, dnsSocketAtStop, dnsCloses >>
    /\ UNCHANGED nonDnsVars

\* dnsServerTask lines 1063 and 1068-1071: the test of the field; without a
\* descriptor the task clears its handle and deletes itself.
dnsServerTask_CleanupTest ==
    /\ dnsTaskHandle /\ dnsTaskPc = "cleanup"
    /\ IF dnsSocket >= 0
       THEN /\ dnsTaskPc' = "cl_close"
            /\ UNCHANGED dnsTaskHandle
       ELSE /\ dnsTaskPc' = "none"
            /\ dnsTaskHandle' = FALSE
    /\ UNCHANGED << dnsRunning, dnsSocket, dnsSocketOpen, dnsStopPc,
                    dnsStopEnd, dnsSocketAtStop, dnsCloses >>
    /\ UNCHANGED nonDnsVars

\* dnsServerTask line 1064.
dnsServerTask_CleanupClose ==
    /\ dnsTaskHandle /\ dnsTaskPc = "cl_close"
    /\ \E fd \in closeArgs : close(fd)
    /\ dnsTaskPc' = "cl_reset"
    /\ UNCHANGED << dnsRunning, dnsTaskHandle, dnsSocket, dnsStopPc,
                    dnsStopEnd, dnsSocketAtStop >>
    /\ UNCHANGED nonDnsVars

\* dnsServerTask lines 1065-1071: the field is reset, the handle cleared and
\* the task deleted.
dnsServerTask_CleanupReset ==
    /\ dnsTaskHandle /\ dnsTaskPc = "cl_reset"
    /\ dnsSocket' = 0 - 1
    /\ dnsTaskHandle' = FALSE
    /\ dnsTaskPc' = "none"
    /\ UNCHANGED << dnsRunning, dnsSocketOpen, dnsStopPc, dnsStopEnd,
                    dnsSocketAtStop, dnsCloses >>
    /\ UNCHANGED nonDnsVars

\* stopDNSServer lines 695-702: nothing when the running flag is false; else
\* the flag is cleared.
stopDNSServer_Begin ==
    /\ dnsStopPc = "idle"
    /\ IF ~dnsRunning
       THEN UNCHANGED << dnsRunning, dnsStopPc, dnsSocketAtStop >>
       ELSE /\ dnsRunning' = FALSE
            /\ dnsStopPc' = "test"
            /\ dnsSocketAtStop' = dnsSocketOpen
    /\ UNCHANGED << dnsTaskHandle, dnsTaskPc, dnsSocket, dnsSocketOpen,
                    dnsStopEnd, dnsCloses >>
    /\ UNCHANGED nonDnsVars

\* stopDNSServer line 705: the test of the field.
stopDNSServer_TestSocket ==
    /\ dnsStopPc = "test"
    /\ dnsStopPc' = IF dnsSocket >= 0 THEN "close" ELSE "wait"
    /\ UNCHANGED << dnsRunning, dnsTaskHandle, dnsTaskPc, dnsSocket,
                    dnsSocketOpen, dnsStopEnd, dnsSocketAtStop, dnsCloses >>
    /\ UNCHANGED nonDnsVars

\* stopDNSServer line 706.
stopDNSServer_CloseSocket ==
    /\ dnsStopPc = "close"
    /\ \E fd \in closeArgs : close(fd)
    /\ dnsStopPc' = "reset"
    /\ UNCHANGED << dnsRunning, dnsTaskHandle, dnsTaskPc, dnsSocket,
                    dnsStopEnd, dnsSocketAtStop >>
    /\ UNCHANGED nonDnsVars

\* stopDNSServer line 707.
stopDNSServer_ResetSocket ==
    /\ dnsStopPc = "reset"
    /\ dnsSocket' = 0 - 1
    /\ dnsStopPc' = "wait"
    /\ UNCHANGED << dnsRunning, dnsTaskHandle, dnsTaskPc, dnsSocketOpen,
                    dnsStopEnd, dnsSocketAtStop, dnsCloses >>
    /\ UNCHANGED nonDnsVars

\* stopDNSServer lines 710-722: the wait ends when the task has cleared its
\* handle, or after 50 delays of 100 ms, and a task that still exists then
\* is deleted.  The DNS task has priority 5 and the waiting caller sleeps, so
\* a task that is not blocked reaches its next recvfrom or its exit within
\* the five seconds: the wait times out only on a task inside recvfrom.
stopDNSServer_End ==
    /\ dnsStopPc = "wait"
    /\ ~dnsTaskHandle \/ dnsTaskPc = "recvfrom"
    /\ dnsStopEnd' = IF dnsTaskHandle THEN "forced" ELSE "self"
    /\ dnsTaskHandle' = FALSE
    /\ dnsTaskPc' = "none"
    /\ dnsStopPc' = "idle"
    /\ UNCHANGED << dnsRunning, dnsSocket, dnsSocketOpen, dnsSocketAtStop,
                    dnsCloses >>
    /\ UNCHANGED nonDnsVars

NextDnsTask ==
    \/ startDNSServer
    \/ dnsServerTask_Socket
    \/ dnsServerTask_LoopTest
    \/ dnsServerTask_Recvfrom
    \/ dnsServerTask_CleanupTest
    \/ dnsServerTask_CleanupClose
    \/ dnsServerTask_CleanupReset
    \/ stopDNSServer_Begin
    \/ stopDNSServer_TestSocket
    \/ stopDNSServer_CloseSocket
    \/ stopDNSServer_ResetSocket
    \/ stopDNSServer_End

SpecDnsTask == Init /\ [][NextDnsTask]_vars

\* ------------------------------------------------- parameter registry
\* The ids an application gives its parameters, and the null pointer.
ParamIds == { "server", "port", "token" }

nullptr == "nullptr"

\* addParameter lines 779-784: a non-null parameter is appended while the
\* registry holds fewer than WM_MAX_CUSTOM_PARAMS entries; its id is not
\* compared with the ids already registered.
addParameter(parameter) ==
    /\ params' = IF parameter # nullptr /\ Len(params) < WM_MAX_CUSTOM_PARAMS
                 THEN Append(params, parameter) ELSE params
    /\ UNCHANGED << machineVars, scanVars, dnsVars, timeoutVars, dnsTaskVars, scanModeVars, callbackVars, formVars >>

NextParams == \E parameter \in ParamIds \cup { nullptr } : addParameter(parameter)

SpecParams == Init /\ [][NextParams]_vars


\* ------------------------------------------------- scan and the WiFi mode
\* The modes the Manager and the application put the driver in (lines 225,
\* 475, 509 and 1462).
WifiModes == { "STA", "AP", "APSTA" }

\* esp_wifi_set_mode called from outside the scan.  It is taken only while
\* no scan is in flight, so that the mode found after a scan is the scan's
\* own doing.
esp_wifi_set_mode(mode) ==
    /\ ~scanInProgress /\ ~driverScanning
    /\ wifiMode' = mode
    /\ UNCHANGED << state, lastConxResult, connectElapsed, portalElapsed,
                    httpServer, dnsRunning, dnsTaskHandle, handlers, sta,
                    storedSsid, pc, httpPc, callKind, calls, ret, hadCreds,
                    ipInWindow, portalStarted, wifiSaveSeen, saveCbCalls >>
    /\ UNCHANGED << configVars >>

\* performWiFiScan lines 1076-1153, a call that passes the test of
\* _scanInProgress.  modeOk, startOk and restoreOk are the results of
\* esp_wifi_set_mode(WIFI_MODE_APSTA), esp_wifi_scan_start and
\* esp_wifi_set_mode(current_mode); the last one is not looked at by the
\* code.  A blocking scan copies and filters the driver's records before it
\* returns; an asynchronous one returns with the scan running.
performWiFiScan(async) ==
    /\ ~scanInProgress
    /\ \E modeOk \in BOOLEAN, startOk \in BOOLEAN, restoreOk \in BOOLEAN :
         LET mode_changed == wifiMode = "AP"
             restored == IF mode_changed /\ ~restoreOk THEN "APSTA" ELSE wifiMode
         IN  /\ current_mode' = wifiMode
             /\ IF mode_changed /\ ~modeOk
                THEN /\ scanInProgress' = FALSE
                     /\ UNCHANGED << wifiMode, driverScanning, scanVars >>
                ELSE IF ~startOk
                THEN /\ scanInProgress' = FALSE
                     /\ wifiMode' = restored
                     /\ UNCHANGED << driverScanning, scanVars >>
                ELSE IF ~async
                THEN /\ \E records \in ScanInputs :
                          /\ apRecords' = records
                          /\ rawScanResults' \in filteredResults(records,
                                                    minimumQuality, removeDuplicateAPs)
                     /\ scanInProgress' = FALSE
                     /\ wifiMode' = restored
                     /\ UNCHANGED << driverScanning, minimumQuality,
                                     removeDuplicateAPs >>
                ELSE /\ scanInProgress' = TRUE
                     /\ driverScanning' = TRUE
                     /\ wifiMode' = IF mode_changed THEN "APSTA" ELSE wifiMode
                     /\ UNCHANGED scanVars
    /\ UNCHANGED << state, lastConxResult, connectElapsed, portalElapsed,
                    connectTimeout, configPortalTimeout, configPortalBlocking,
                    saveConfigCallback, httpServer, dnsRunning, dnsTaskHandle,
                    handlers, sta, storedSsid, pc, httpPc, callKind, calls,
                    ret, hadCreds, ipInWindow, portalStarted, wifiSaveSeen,
                    saveCbCalls, bootCreds, dnsTaskCreateOk, stopCalls,
                    resetRet, pc2, configModeCalls,
                    apCallback,
                    dnsCloses,
                    paramValues,
                    staPassword,
                    httpReply >>
    /\ UNCHANGED << params, dnsVars, timeoutVars, dnsTaskVars, callbackVars, formVars >>

\* wifiEventHandler lines 802-876 when the driver posts WIFI_EVENT_SCAN_DONE:
\* the event falls to the default branch (lines 871-873), which only logs,
\* so that nothing but the driver's scan ends.
WIFI_EVENT_SCAN_DONE ==
    /\ driverScanning
    /\ driverScanning' = FALSE
    /\ UNCHANGED << scanInProgress, current_mode >>
    /\ UNCHANGED << machineVars, params, scanVars, dnsVars, timeoutVars,
                    dnsTaskVars, callbackVars, formVars >>

NextScanMode ==
    \/ \E mode \in WifiModes : esp_wifi_set_mode(mode)
    \/ \E async \in BOOLEAN : performWiFiScan(async)
    \/ WIFI_EVENT_SCAN_DONE

SpecScanMode == Init /\ [][NextScanMode]_vars


\* ------------------------------------------------ disconnect reason tables
\* wm_map_disconnect_reason: the case labels that return WL_WRONG_PASSWORD.
\* Its first group of labels is the handler's (NoApReasons).
WmWifiAuthReasons ==
    { "WIFI_REASON_AUTH_EXPIRE", "WIFI_REASON_AUTH_LEAVE",
      "WIFI_REASON_ASSOC_EXPIRE", "WIFI_REASON_ASSOC_TOOMANY",
      "WIFI_REASON_NOT_AUTHED", "WIFI_REASON_NOT_ASSOCED",
      "WIFI_REASON_ASSOC_LEAVE", "WIFI_REASON_ASSOC_NOT_AUTHED",
      "WIFI_REASON_DISASSOC_PWRCAP_BAD", "WIFI_REASON_DISASSOC_SUPCHAN_BAD",
      "WIFI_REASON_BSS_TRANSITION_DISASSOC", "WIFI_REASON_IE_INVALID",
      "WIFI_REASON_MIC_FAILURE", "WIFI_REASON_4WAY_HANDSHAKE_TIMEOUT",
      "WIFI_REASON_GROUP_KEY_UPDATE_TIMEOUT", "WIFI_REASON_IE_IN_4WAY_DIFFERS",
      "WIFI_REASON_GROUP_CIPHER_INVALID", "WIFI_REASON_PAIRWISE_CIPHER_INVALID",
      "WIFI_REASON_AKMP_INVALID", "WIFI_REASON_UNSUPP_RSN_IE_VERSION",
      "WIFI_REASON_INVALID_RSN_IE_CAP", "WIFI_REASON_802_1X_AUTH_FAILED",
      "WIFI_REASON_CIPHER_SUITE_REJECTED", "WIFI_REASON_INVALID_PMKID",
      "WIFI_REASON_BEACON_TIMEOUT", "WIFI_REASON_AP_TSF_RESET",
      "WIFI_REASON_ROAMING" }

\* wm_map_disconnect_reason, the classification of the wm_wifi module.  The
\* event handler does not call it.
wm_map_disconnect_reason(reason) ==
    IF reason \in NoApReasons THEN "WL_NO_SSID_AVAIL"
    ELSE IF reason \in WmWifiAuthReasons THEN "WL_WRONG_PASSWORD"
    ELSE "WL_CONNECT_FAILED"

\* The reasons a disconnect event can carry: every label of the two
\* switches, and three that neither lists.
wifi_err_reason_t ==
    NoApReasons \cup AuthReasons \cup WmWifiAuthReasons
    \cup { "WIFI_REASON_UNSPECIFIED", "WIFI_REASON_CONNECTION_FAIL",
           "WIFI_REASON_HANDSHAKE_TIMEOUT" }

\* The state machine with disconnect events of every reason.
NextReasons ==
    \/ Next
    \/ \E reason \in wifi_err_reason_t : wifiEvent_StaDisconnected(reason)

SpecReasons == Init /\ [][NextReasons]_vars


\* ------------------------------------------------------------ AP callback
\* setAPCallback lines 392-394, called by the application before its first
\* autoConnect or startConfigPortal.
setAPCallback(callback) ==
    /\ pc = "idle" /\ calls = 0
    /\ apCallback' = callback
    /\ UNCHANGED << machineVars, params, scanVars, dnsVars, timeoutVars,
                    dnsTaskVars, scanModeVars, formVars >>

\* The application with an AP callback, and nobody using the portal.
NextApCallback ==
    \/ NextQuiet
    \/ \E callback \in ApCallbacks : setAPCallback(callback)

SpecApCallback == Init /\ [][NextApCallback]_vars


\* ------------------------------------------------------ /wifisave form
\* A form body is a list of name=value fields joined by '&'.  Values are
\* plain text without '=', '&', '+' or '%', which the decoding loops of
\* the handler copy unchanged.  The field names: the two the handler looks
\* for, a registered parameter id, and three names that end like them.
FieldNames == { "s", "p", "server", "dns", "ip", "xserver" }

FormValues == { "", "A", "B" }

FormFields == [ name : FieldNames, value : FormValues ]

Forms == UNION { [ 1..n -> FormFields ] : n \in 0..MaxFields }

\* The id the application registers, any number of times.
FormParamIds == { "server" }

\* How a request with an SSID goes on: esp_wifi_set_mode, esp_wifi_set_config
\* or esp_wifi_connect fails, or none does.
WifiSaveResults == { "mode_failed", "config_failed", "connect_failed", "ok" }

\* The characters of a field name or of a search key.
spell(name) ==
    CASE name = "s" -> << "s" >>
      [] name = "p" -> << "p" >>
      [] name = "dns" -> << "d", "n", "s" >>
      [] name = "ip" -> << "i", "p" >>
      [] name = "server" -> << "s", "e", "r", "v", "e", "r" >>
      [] name = "xserver" -> << "x", "s", "e", "r", "v", "e", "r" >>

\* The text key= occurs in the body at the field "name": only the end of a
\* field name is followed by '='.
endsWith(name, key) ==
    LET n == spell(name)
        k == spell(key)
    IN  /\ Len(k) <= Len(n)
        /\ SubSeq(n, Len(n) - Len(k) + 1, Len(n)) = k

\* strstr(buf, "key="): the first field at which the text occurs, 0 when
\* strstr returns NULL.
strstr(form, key) ==
    IF \E i \in 1..Len(form) : endsWith(form[i].name, key)
    THEN CHOOSE i \in 1..Len(form) :
           /\ endsWith(form[i].name, key)
           /\ \A j \in 1..(i - 1) : ~endsWith(form[j].name, key)
    ELSE 0

\* The text from the occurrence to the next '&' or the end of the body; ""
\* when there is no occurrence (the buffers are zero-initialised).
valueAt(form, key) ==
    IF strstr(form, key) = 0 THEN "" ELSE form[strstr(form, key)].value

\* handleWifiSave lines 1347-1510 up to the connect request.  Every
\* registered parameter whose key is found with a non-empty value gets that
\* value (lines 1372-1404); then the SSID and the password are extracted and
\* an empty SSID is answered with the error page (lines 1406-1458); else
\* AP+STA mode is requested, the credentials are written to the station
\* configuration and the connect request is issued.
handleWifiSave_Form(form) ==
    /\ httpPc = "idle"
    /\ paramValues' =
         [ i \in 1..WM_MAX_CUSTOM_PARAMS |->
             IF i <= Len(params) /\ valueAt(form, params[i]) # ""
             THEN valueAt(form, params[i]) ELSE paramValues[i] ]
    /\ IF valueAt(form, "s") = ""
       THEN /\ httpReply' = "error"
            /\ UNCHANGED << wifiMode, storedSsid, staPassword, sta, saveCbCalls,
                            wifiSaveSeen, httpPc >>
       ELSE \E result \in WifiSaveResults :
              IF result = "mode_failed"
              THEN /\ httpReply' = "500"
                   /\ UNCHANGED << wifiMode, storedSsid, staPassword, sta,
                                   saveCbCalls, wifiSaveSeen, httpPc >>
              ELSE /\ wifiMode' = "APSTA"
                   /\ IF result = "config_failed"
                      THEN /\ httpReply' = "500"
                           /\ UNCHANGED << storedSsid, staPassword, sta,
                                           saveCbCalls, wifiSaveSeen, httpPc >>
                      ELSE /\ storedSsid' = valueAt(form, "s")
                           /\ staPassword' = valueAt(form, "p")
                           /\ sta' = IF result = "ok" THEN "connecting" ELSE "idle"
                           /\ saveCbCalls' = 0
                           /\ wifiSaveSeen' = TRUE
                           /\ httpPc' = "ws_connected"
                           /\ httpReply' = "connecting"
    /\ UNCHANGED << state, lastConxResult, connectElapsed, portalElapsed,
                    connectTimeout, configPortalTimeout, configPortalBlocking,
                    saveConfigCallback, httpServer, dnsRunning, dnsTaskHandle,
                    handlers, pc, callKind, calls, ret, hadCreds, ipInWindow,
                    portalStarted, bootCreds, dnsTaskCreateOk, stopCalls,
                    resetRet, pc2, configModeCalls >>
    /\ UNCHANGED << params, scanVars, dnsVars, timeoutVars, dnsTaskVars,
                    scanModeVars, callbackVars >>

\* The registry is filled and forms are posted to the handler.
NextForm ==
    \/ \E parameter \in FormParamIds : addParameter(parameter)
    \/ \E form \in Forms : handleWifiSave_Form(form)
    \/ handleWifiSave_TrySta

SpecForm == Init /\ [][NextForm]_vars

\* ================================================================ claims
Terminal == { WM_STATE_RUN_STA, WM_STATE_PORTAL_TIMEOUT, WM_STATE_PORTAL_ABORT }

PortalPcs == { "pi_enter", "pi_ap", "pi_loop", "pi_timeout", "pi_done" }

APUp == wifiMode \in { "AP", "APSTA" }

\* The steps that deliver the got-IP and the link-connected event, the step
\* in which a public call returns, and the steps that issue a connect request
\* (startSTA in autoConnect, handleWifiSave).
GotIpStep == sta = "associated" /\ sta' = "gotip"

StaConnectedStep == sta = "connecting" /\ sta' = "associated"

ConnectRequestStep ==
    \/ pc = "idle" /\ pc' = "ac_connected"
    \/ httpPc = "idle" /\ httpPc' = "ws_connected"

ReturnStep == pc # "idle" /\ pc' = "idle"

\* ------------------------------------------------------------------ C1
\* C1: in blocking mode with stored credentials, once the got-IP event of
\* the attempt has been delivered before the connect timeout elapsed,
\* autoConnect does not go on to the portal (no AP, no servers), and when it
\* returns it returns true with the state RUN_STA.
C1_ConnectedInTime ==
    [][ (configPortalBlocking /\ callKind = "autoConnect" /\ hadCreds /\ ipInWindow')
          => /\ pc' \notin PortalPcs
             /\ ~portalStarted'
             /\ ReturnStep => (ret' = "true" /\ state' = WM_STATE_RUN_STA) ]_vars

\* ------------------------------------------------------------------ C2
\* The station attempt of an autoConnect with stored credentials has failed:
\* the state fell to START_PORTAL inside the blocking wait, or after the
\* non-blocking call returned.
StationAttemptFailed ==
    /\ callKind = "autoConnect" /\ hadCreds
    /\ state = WM_STATE_START_PORTAL
    /\ IF configPortalBlocking
       THEN pc \in { "ac_loop", "ac_timeout", "ac_done" }
       ELSE pc = "idle" /\ ret = "true" /\ ~portalStarted

PortalUp == state = WM_STATE_RUN_PORTAL /\ APUp /\ httpServer

\* The blocking call gave up because a platform call (WiFi setup, AP start,
\* HTTP server start) failed.
PlatformFailure ==
    configPortalBlocking /\ pc = "idle" /\ ret = "false" /\ ~portalStarted

\* C2: whenever the station attempt of an autoConnect with stored
\* credentials fails, the portal is eventually up (RUN_PORTAL, AP and HTTP
\* server), in blocking mode and, with process() called again and again, in
\* non-blocking mode; runs in which a platform call fails or the station
\* gets its IP after all are not held against the claim.
C2_FallsThroughToPortal ==
    [](StationAttemptFailed
         => <>(PortalUp \/ PlatformFailure \/ state = WM_STATE_RUN_STA))

\* ------------------------------------------------------------------ C3
\* C3: in blocking mode, when a call returns from a portal that was started,
\* the state is RUN_STA, PORTAL_TIMEOUT or PORTAL_ABORT and the result is
\* true exactly in RUN_STA.
C3_PortalReturnsTerminal ==
    [][ (configPortalBlocking /\ portalStarted /\ pc = "pi_done" /\ ReturnStep)
          => /\ state' \in Terminal
             /\ ret' = "true" <=> state' = WM_STATE_RUN_STA ]_vars

\* ------------------------------------------------------------------ C4
\* C4: a Manager constructed with no stored credentials is in RUN_STA only
\* after a /wifisave has requested a connection (whichever call started it).
C4_RunStaNeedsWifiSave ==
    (~bootCreds /\ state = WM_STATE_RUN_STA) => wifiSaveSeen

C4_Witness ==
    /\ ~bootCreds /\ callKind = "autoConnect" /\ ~hadCreds
    /\ wifiSaveSeen /\ state = WM_STATE_RUN_STA

\* ------------------------------------------------------------------ C5
\* C5: without stored credentials, in blocking mode with a non-zero portal
\* timeout and no portal interaction, autoConnect eventually returns false,
\* and the state is then PORTAL_TIMEOUT unless a platform call kept the
\* portal from starting.
C5_PortalTimesOut ==
    []((callKind = "autoConnect" /\ ~hadCreds /\ configPortalBlocking
          /\ configPortalTimeout > 0 /\ pc # "idle")
         => <>(/\ pc = "idle" /\ ret = "false"
               /\ portalStarted => state = WM_STATE_PORTAL_TIMEOUT))

C5_Witness ==
    /\ callKind = "autoConnect" /\ ~hadCreds /\ configPortalBlocking
    /\ configPortalTimeout > 0 /\ portalStarted
    /\ pc = "idle" /\ ret = "false" /\ state = WM_STATE_PORTAL_TIMEOUT

\* ------------------------------------------------------------------ C6
\* C6: with a portal timeout of zero the state is never PORTAL_TIMEOUT.
C6_ZeroNeverTimesOut ==
    configPortalTimeout = 0 => state # WM_STATE_PORTAL_TIMEOUT

C6_Witness ==
    /\ configPortalTimeout = 0 /\ state = WM_STATE_RUN_PORTAL
    /\ portalElapsed >= ElapsedCap

\* ------------------------------------------------------------------ C7
\* C7: after a /wifisave with a non-empty SSID has issued its connect
\* request the state is TRY_STA, and a got-IP event delivered then, within
\* the connect timeout, makes the state RUN_STA and invokes the save-config
\* callback exactly once.
C7_SavedOnce ==
    [][ /\ (httpPc = "ws_connected" /\ httpPc' = "idle") => state' = WM_STATE_TRY_STA
        /\ (/\ wifiSaveSeen /\ httpPc = "idle" /\ state = WM_STATE_TRY_STA
            /\ connectElapsed <= connectTimeout /\ GotIpStep)
             => (state' = WM_STATE_RUN_STA /\ saveCbCalls' = 1) ]_vars

\* ------------------------------------------------------------------ C8
\* C8: the state becomes RUN_STA, and the save-config callback runs, only in
\* a got-IP step; a link-connected step changes neither the state nor the
\* last connection result and runs no callback.
C8_GotIpIsSoleTrigger ==
    [][ /\ (state # WM_STATE_RUN_STA /\ state' = WM_STATE_RUN_STA) => GotIpStep
        /\ saveCbCalls' > saveCbCalls => GotIpStep
        /\ StaConnectedStep => UNCHANGED << state, lastConxResult, saveCbCalls >> ]_vars

C8_Witness ==
    /\ sta = "gotip" /\ state = WM_STATE_RUN_STA
    /\ lastConxResult = "WL_CONNECTED" /\ saveCbCalls > 0

\* ------------------------------------------------------------------ C9
\* C9: a disconnect event delivered in TRY_STA makes the state START_PORTAL
\* and leaves the station idle, and the station starts connecting only when
\* autoConnect or /wifisave issues a connect request, never by a retry of
\* the Manager.
C9_NoRetry ==
    [][ /\ (state = WM_STATE_TRY_STA
             /\ \E reason \in Reasons : wifiEvent_StaDisconnected(reason))
             => (state' = WM_STATE_START_PORTAL /\ sta' = "idle")
        /\ (sta # "connecting" /\ sta' = "connecting") => ConnectRequestStep ]_vars

C9_Witness ==
    /\ pc \in { "ac_loop", "ac_timeout" }
    /\ state = WM_STATE_START_PORTAL /\ sta = "idle"
    /\ lastConxResult = "WL_WRONG_PASSWORD"

\* ----------------------------------------------------------------- C10
\* C10: a process() call made after a call that returned true returns true
\* exactly when the state it leaves is TRY_STA or RUN_PORTAL, and when it
\* returns false that state is RUN_STA, PORTAL_TIMEOUT or PORTAL_ABORT.
C10_FalseMeansTerminal ==
    (pc = "idle" /\ ret = "true")
      => /\ processReturn <=> updatedState \in { WM_STATE_TRY_STA, WM_STATE_RUN_PORTAL }
         /\ ~processReturn => updatedState \in Terminal

\* ----------------------------------------------------------------- C11
\* C11: when autoConnect returns true, in blocking or in non-blocking mode,
\* the state at the return is RUN_STA.
C11_TrueMeansConnected ==
    [][ (callKind' = "autoConnect" /\ ReturnStep /\ ret' = "true")
          => state' = WM_STATE_RUN_STA ]_vars

\* ----------------------------------------------------------------- C12
\* C12: from every reachable state, a stopServers call leaves the HTTP
\* handle null, the DNS running flag false and the DNS task handle null, and
\* a second call in a row changes nothing and performs no stop operation.
C12_StopServersIdempotent ==
    LET once  == stopServersResult(ServerFields)
        twice == stopServersResult(once)
    IN  /\ ~once.httpServer /\ ~once.dnsRunning /\ ~once.dnsTaskHandle
        /\ twice = once
        /\ stopOperations(once) = 0

C12_Witness ==
    /\ stopCalls = 2 /\ portalStarted
    /\ ~httpServer /\ ~dnsRunning /\ ~dnsTaskHandle

\* ----------------------------------------------------------------- C13
\* C13: resetSettings asks the station to disconnect and erases the stored
\* credentials; it returns true exactly when the erase went through, after a
\* true result getWiFiIsSaved() is false, and after a false result the
\* stored credentials are what they were.
C13_ResetErasesOrFails ==
    [][ resetSettings
          => /\ sta' \in { "idle", "leaving" }
             /\ resetRet' \in { "true", "false" }
             /\ resetRet' = "true" => ~getWiFiIsSaved'
             /\ resetRet' = "false" => storedSsid' = storedSsid ]_vars

C13_Witness ==
    bootCreds /\ resetRet = "true" /\ ~getWiFiIsSaved /\ sta = "leaving"

\* ----------------------------------------------------------------- C14
\* C14: while a public call holds the Manager mutex, the state and the last
\* connection result are written only by that call's own steps: no write of
\* an event handler or an HTTP handler interleaves with it.
C14_WritesUnderLock ==
    [][ (mutexHeld /\ (state' # state \/ lastConxResult' # lastConxResult))
          => AppStep ]_vars

\* ----------------------------------------------------------------- C15
\* C15: a public call made by a second task while another task is inside a
\* blocking autoConnect / startConfigPortal eventually returns.
C15_SecondCallReturns ==
    [](pc2 = "waiting" => <>(pc2 = "idle"))

\* ----------------------------------------------------------------- C16
\* C16: when a blocking call returns true from a portal in which a /wifisave
\* led to the connection, the WiFi mode is station-only and the HTTP server
\* and the DNS responder are still running, for a portal entered through
\* autoConnect and for one entered through startConfigPortal.
C16_ApDemoted ==
    [][ (pc = "pi_done" /\ ReturnStep /\ ret' = "true" /\ wifiSaveSeen
           /\ callKind \in { "autoConnect", "startConfigPortal" })
          => (wifiMode' = "STA" /\ httpServer' /\ dnsRunning') ]_vars

\* ----------------------------------------------------------------- C17
\* C17: when the step of startConfigPortalInternal that starts the HTTP
\* server and the DNS responder ends with either of them not running, the
\* call returns false in that step and the state is not RUN_PORTAL.
C17_ServerFailureReported ==
    [][ (startConfigPortalInternal_Servers /\ (~httpServer' \/ ~dnsRunning'))
          => (ReturnStep /\ ret' = "false" /\ state' # WM_STATE_RUN_PORTAL) ]_vars

\* ----------------------------------------------------------------- C18
\* C18: once the state is RUN_STA, PORTAL_TIMEOUT or PORTAL_ABORT, no
\* network event, HTTP request or process() call changes it; only a step of
\* an autoConnect or startConfigPortal call of the application does.
C18_TerminalStatesStay ==
    [][ (state \in Terminal /\ state' # state) => AppStep ]_vars

\* ----------------------------------------------------------------- C19
\* C19: once /exit has set PORTAL_ABORT while a blocking portal loop is
\* running, every further step of the call keeps PORTAL_ABORT, the next
\* loop test leaves the loop, and the call returns false.
C19_AbortObserved ==
    [][ (AppStep /\ configPortalBlocking /\ state = WM_STATE_PORTAL_ABORT
           /\ pc \in { "pi_loop", "pi_timeout", "pi_done" })
          => /\ state' = WM_STATE_PORTAL_ABORT
             /\ pc = "pi_loop" => pc' = "pi_done"
             /\ ReturnStep => ret' = "false" ]_vars

\* ----------------------------------------------------------------- C20
\* C20: with a config-mode callback registered, every step that brings the
\* portal up (the state becomes RUN_PORTAL in startConfigPortalInternal,
\* entered from startConfigPortal or from the fallback of autoConnect)
\* invokes the callback once.
C20_ConfigModeCallbackInvoked ==
    [][ (startConfigPortalInternal_Servers /\ state' = WM_STATE_RUN_PORTAL)
          => configModeCalls' = configModeCalls + 1 ]_vars

\* ----------------------------------------------------------------- C21
\* C21: the ids in the parameter registry are pairwise distinct, and an
\* addParameter call whose id is already registered leaves the registry
\* size unchanged.
C21_ParamIdsDistinct ==
    \A i, j \in 1..Len(params) : i # j => params[i] # params[j]

\* ----------------------------------------------------------------- C22
sortedBySignal(l) == \A i, j \in 1..Len(l) : i < j => l[i].rssi >= l[j].rssi

noEmptySsid(l) == \A i \in 1..Len(l) : l[i].ssid # ""

distinctSsids(l) == \A i, j \in 1..Len(l) : i # j => l[i].ssid # l[j].ssid

\* C22 as stated: whatever the configuration, the list filterScanResults
\* leaves is sorted by non-increasing RSSI, has no empty SSID and has no
\* SSID twice.
C22_FilteredAlwaysUnique ==
    [][ filterScanResults
          => /\ sortedBySignal(rawScanResults')
             /\ noEmptySsid(rawScanResults')
             /\ distinctSsids(rawScanResults') ]_vars

\* C22: the list filterScanResults leaves is sorted by non-increasing RSSI
\* and has no empty SSID; it has no SSID twice when duplicate removal is
\* enabled.
C22_FilteredSortedUnique ==
    [][ filterScanResults
          => /\ sortedBySignal(rawScanResults')
             /\ noEmptySsid(rawScanResults')
             /\ removeDuplicateAPs => distinctSsids(rawScanResults') ]_vars

\* Two records of one network, the weaker first and a hidden network
\* nowhere, have been filtered to the one record with duplicate removal on.
C22_Witness ==
    /\ removeDuplicateAPs
    /\ Len(apRecords) = 2
    /\ apRecords[1].ssid = apRecords[2].ssid
    /\ apRecords[1].ssid # ""
    /\ Len(rawScanResults) = 1

\* ----------------------------------------------------------------- C23
\* The quality of the claim: clamp(2 * (rssi + 100), 0, 100).
clampedQuality(rssi) ==
    LET q == 2 * (rssi + 100)
    IN  IF q < 0 THEN 0 ELSE IF q > 100 THEN 100 ELSE q

\* C23: every record filterScanResults leaves has a quality of at least
\* the configured minimum.
C23_QualityAtLeastMinimum ==
    [][ filterScanResults
          => \A i \in 1..Len(rawScanResults') :
                 clampedQuality(rawScanResults'[i].rssi) >= minimumQuality ]_vars

\* With a minimum of 50, a weak and a strong visible network were scanned
\* and only the strong one is left.
C23_Witness ==
    /\ minimumQuality = 50
    /\ Len(apRecords) = 2
    /\ noEmptySsid(apRecords) /\ distinctSsids(apRecords)
    /\ \E i \in 1..2 : clampedQuality(apRecords[i].rssi) < 50
    /\ Len(rawScanResults) = 1
    /\ clampedQuality(rawScanResults[1].rssi) >= 50

\* ----------------------------------------------------------------- C24
\* The raw records of an SSID that pass the empty-SSID and minimum-quality
\* filters.
passingRecords(raw, ssid, minQuality) ==
    { k \in 1..Len(raw) :
        /\ raw[k].ssid = ssid /\ ssid # ""
        /\ (minQuality > 0 => clampedQuality(raw[k].rssi) >= minQuality) }

\* C24: with duplicate removal enabled, each record filterScanResults
\* leaves carries the largest RSSI among the raw records of its SSID that
\* pass the filters.
C24_StrongestKept ==
    [][ (filterScanResults /\ removeDuplicateAPs)
          => \A i \in 1..Len(rawScanResults') :
               LET e == rawScanResults'[i]
                   P == passingRecords(rawScanResults, e.ssid, minimumQuality)
               IN  /\ P # {}
                   /\ \A k \in P : rawScanResults[k].rssi <= e.rssi ]_vars

\* The weaker record of a network came first in the raw list and the
\* stronger one was kept.
C24_Witness ==
    /\ removeDuplicateAPs
    /\ Len(apRecords) = 2
    /\ apRecords[1].ssid = apRecords[2].ssid
    /\ apRecords[1].ssid # ""
    /\ apRecords[1].rssi < apRecords[2].rssi
    /\ rawScanResults = << apRecords[2] >>

\* ----------------------------------------------------------------- C25
\* A well-formed query: a full header, at least one question, the header's
\* counts matching the entries, questions first and records after them.
WellFormedQuery(q) ==
    /\ q.len \in { "normal", "long" }
    /\ q.qdcount >= 1
    /\ Len(q.body) = q.qdcount + q.arcount
    /\ \A i \in 1..Len(q.body) :
           q.body[i].kind = (IF i <= q.qdcount THEN "question" ELSE "record")

\* The entries of a reply that follow its question section.
recordsAfterQuestions(r) == SubSeq(r.body, r.qdcount + 1, Len(r.body))

\* C25: a well-formed query is answered; the reply repeats the question
\* section, carries the response and authoritative flags, and its records
\* are one A record per question for the portal address with TTL 60, their
\* number being the reply's answer count.
C25_OneAnswerPerQuestion ==
    WellFormedQuery(dnsQuery)
      => /\ dnsReply.sent /\ dnsReply.qr /\ dnsReply.aa
         /\ dnsReply.qdcount = dnsQuery.qdcount
         /\ SubSeq(dnsReply.body, 1, dnsReply.qdcount)
              = SubSeq(dnsQuery.body, 1, dnsQuery.qdcount)
         /\ Len(recordsAfterQuestions(dnsReply)) = dnsQuery.qdcount
         /\ dnsReply.ancount = Len(recordsAfterQuestions(dnsReply))
         /\ \A i \in 1..Len(recordsAfterQuestions(dnsReply)) :
                recordsAfterQuestions(dnsReply)[i] = PortalAnswer

\* ----------------------------------------------------------------- C26
\* C26: a reply is sent only for a well-formed query all of whose questions
\* ask for an A record.
C26_OnlyAQueriesAnswered ==
    dnsReply.sent
      => /\ WellFormedQuery(dnsQuery)
         /\ \A i \in 1..dnsQuery.qdcount : dnsQuery.body[i].type = "A"

\* ----------------------------------------------------------------- C27
\* A field holds exactly the microseconds of the given seconds.
holdsSeconds(field, seconds) ==
    /\ field % UnitsPerSecond = 0
    /\ field \div UnitsPerSecond = seconds

\* C27: after setConfigPortalTimeout(s) and setConnectTimeout(s) the stored
\* timeout is exactly s seconds, and the portal timeout is zero (disabled)
\* only for s = 0.
C27_TimeoutExact ==
    /\ holdsSeconds(portalTimeoutField, portalSeconds)
    /\ holdsSeconds(connectTimeoutField, connectSeconds)
    /\ portalTimeoutField = 0 => portalSeconds = 0

DisconnectResults == { "WL_NO_SSID_AVAIL", "WL_WRONG_PASSWORD",
                       "WL_CONNECTION_LOST", "WL_CONNECT_FAILED" }

C31_NoResultBeforeTrySta ==
    [][ ( \/ ipEvent_GotIp
          \/ \E reason \in Reasons : wifiEvent_StaDisconnected(reason) )
        => ~(pc = "ac_connected" \/ httpPc = "ws_connected") ]_vars

\* C32: the portal-timeout check of the blocking loop leaves a state that
\* is already RUN_STA or PORTAL_ABORT unchanged.
C32_TimeoutKeepsResult ==
    [][ (portal_TimeoutCheck /\ state \in { WM_STATE_RUN_STA, WM_STATE_PORTAL_ABORT })
        => state' = state ]_vars

\* C33: at most one pair of event handler instances (one for WIFI_EVENT,
\* one for IP_EVENT) is registered for the Manager, however many times
\* autoConnect and startConfigPortal are called.
C33_OneHandlerPair == handlers <= 1

\* C34: the application task is never stuck inside the AP callback: a
\* callback that calls process, stopServers, startWebPortal or
\* resetSettings on the Manager returns.
C34_ApCallbackReturns == pc \notin RelockOutcomes

\* C35: the DNS running flag is true only while a responder task exists
\* (created and not yet ended).
C35_RunningMeansTask == dnsRunning => (dnsTaskHandle /\ dnsTaskPc # "none")

\* C36: the DNS socket of a responder session is closed at most once, and
\* it is closed once stopDNSServer and the task's cleanup have both
\* finished.
C36_SocketClosedOnce ==
    /\ dnsCloses <= 1
    /\ (dnsStopPc = "idle" /\ dnsStopEnd # "none" /\ ~dnsRunning /\ dnsTaskPc = "none")
         => ~dnsSocketOpen

\* C37: whenever the state is RUN_STA the last connection result is
\* WL_CONNECTED.
C37_RunStaMeansConnected ==
    state = WM_STATE_RUN_STA => lastConxResult = "WL_CONNECTED"

\* The value of the first field of the form whose name is exactly "name",
\* "" when the form has no such field.
exactValue(form, name) ==
    IF \E i \in 1..Len(form) : form[i].name = name
    THEN form[CHOOSE i \in 1..Len(form) :
                /\ form[i].name = name
                /\ \A j \in 1..(i - 1) : form[j].name # name].value
    ELSE ""

\* C38: a POST /wifisave whose field s is missing or empty is answered with
\* the error page and changes neither the state, the WiFi mode, the station
\* configuration and connection, nor the value of any parameter.
C38_EmptySsidChangesNothing ==
    [][ \A form \in Forms :
          (handleWifiSave_Form(form) /\ exactValue(form, "s") = "")
          => /\ httpReply' = "error"
             /\ UNCHANGED << state, wifiMode, storedSsid, staPassword, sta,
                             paramValues >> ]_vars

\* C39: the /wifisave handler gives every registered parameter the value of
\* the field named exactly as its id (a parameter without such a field, or
\* with an empty one, keeps its value), and an accepted request stores the
\* values of the fields named exactly s and p as SSID and password.
C39_FieldsByExactName ==
    [][ \A form \in Forms :
          handleWifiSave_Form(form)
          => /\ \A i \in 1..Len(params) :
                  paramValues'[i] = IF exactValue(form, params[i]) # ""
                                    THEN exactValue(form, params[i])
                                    ELSE paramValues[i]
             /\ httpReply' = "connecting"
                  => /\ storedSsid' = exactValue(form, "s")
                     /\ staPassword' = exactValue(form, "p") ]_vars

====
